---- MODULE Spec2Model ----
(***************************************************************************)
(* Model of the OAuth 2.0 authorization core of airtable-mcp-server-oauth: *)
(* OAuthFlow (mcp_oauth_lib/core/flow.py), the PKCE and state utilities    *)
(* (mcp_oauth_lib/utils/pkce.py, utils/state.py), the token fields of      *)
(* AirtableOAuthProvider (mcp_oauth_lib/providers/airtable.py) and their   *)
(* users in the tool layer (airtable_mcp/mcp/server.py, api/client.py).    *)
(*                                                                         *)
(* Handlers are coroutines on one asyncio event loop: a handler runs       *)
(* atomically up to an await.  The only await inside the flow is the call  *)
(* to provider.exchange_code_for_tokens, so exchange is two steps          *)
(* (ExchangeBegin, ExchangeReturn) and every other handler is one step.    *)
(*                                                                         *)
(* A handler is an operator from the current state and the request to the  *)
(* response and the new values of the fields it writes; its action applies *)
(* it.  A response is therefore a value of the handler, not a variable.    *)
(*                                                                         *)
(* Spec is the flow behind its routes (GET /auth/authorize, GET             *)
(* /auth/callback, POST /token) with the sweep and the clock; LiveSpec adds *)
(* the progress the scheduling gives; HolderSpec is the token fields under  *)
(* POST /oauth/refresh, POST /oauth/revoke and the tool calls; PkceSpec is  *)
(* the PKCE generator, character by character.  StateStoreSpec is the flow  *)
(* without the token route and RoutesSpec the flow without the sweep and    *)
(* the clock; RegisterSpec is POST /oauth/register under the clock;         *)
(* RetrySpec and RetryLiveSpec are the retry loop of                        *)
(* AirtableClient._make_request, attempt by attempt; ContextSpec is         *)
(* AuthContext (mcp_oauth_lib/auth/context.py) called from several threads. *)
(*                                                                         *)
(* Abstractions: SHA-256 + base64url is a symbolic injective digest;       *)
(* secrets.token_urlsafe(32) yields a token never generated before; state  *)
(* tokens are integers (0 is a token that initiate never generates).       *)
(***************************************************************************)
EXTENDS Integers, Sequences, FiniteSets, TLC

VARIABLES
    now,            \* time.time(), in seconds
    active_states,  \* OAuthFlow._active_states : state token -> state record
    active_codes,   \* OAuthFlow._active_codes  : code -> code record
    access_token,   \* AirtableOAuthProvider.access_token
    refresh_token,  \* AirtableOAuthProvider.refresh_token
    expires_at,     \* AirtableOAuthProvider.expires_at
    pending,        \* exchange requests suspended at the await of the adapter call
                    \* (the client's code_verifier is kept where the handler read it)
    adapter_calls,  \* log: the calls made to provider.exchange_code_for_tokens
    initiated,      \* log: the provider verifier initiate stored for each state token
    stored,         \* log: the <<code, state>> records that callbacks stored
    consumed,       \* log: the <<code, state>> records that exchanges looked up
    tool,           \* the tool calls of AirtableMCPServer and their AirtableClient:
                    \* caller -> position and log of its _make_request
    generated,      \* the last call of the PKCE generator: its arguments, the
                    \* characters secrets.choice drew and what it returned
    registered,     \* log: the responses of POST /oauth/register, in their order
    retry,          \* the retry loop of one AirtableClient._make_request: its
                    \* position, its attempt and what came back for each attempt
    auth_context    \* auth/context.py: the value of _access_token_context in
                    \* each context and the access_token of _thread_local in
                    \* each thread

vars == <<now, active_states, active_codes, access_token, refresh_token,
          expires_at, pending, adapter_calls, initiated, stored, consumed,
          tool, generated, registered, retry, auth_context>>

----------------------------------------------------------------------------
\* Bounds of the model

MaxInitiate == 2
MaxExchange == 2
MaxTime == 601
MaxCallers == 2
MaxRegister == 3
MaxRetries == 2
MaxThreads == 2
MaxTasks == 2

\* the clock advances in steps that reach the ages 600 (not yet expired) and
\* 601 (expired) of a record created at time 0
TickSteps == {600, 601}

----------------------------------------------------------------------------
\* Values

NONE == "<None>"
NoExpiry == -1

\* Python truthiness of an Optional[str]
Truthy(x) == x # NONE /\ x # ""

state_expiry_seconds == 600
auth_code_expiry_seconds == 600

Codes == {"c1", "c2"}
ClientVerifiers == {"v1", "v2"}
Methods == {NONE, "S256", "plain", "md5"}
UserIds == {"u1"}
RedirectUris == {NONE, "https://client/cb"}
ProviderErrors == {NONE, "access_denied"}

\* the token payload the provider's token endpoint returns on success
TokenPayloads ==
    { [access_token |-> "at1", refresh_token |-> "rt1", expires_in |-> 3600] }

----------------------------------------------------------------------------
\* PKCE engine (utils/pkce.py)

Sha256B64_Constant(v) == "S256()"

\* base64.urlsafe_b64encode(sha256(v)).rstrip('='), as a symbolic injective digest
Sha256B64(v) == "S256(" \o v \o ")"

validate_pkce(code_verifier, code_challenge, method) ==
    IF method = "S256" THEN Sha256B64(code_verifier) = code_challenge
    ELSE IF method = "plain" THEN code_verifier = code_challenge
    ELSE FALSE

code_challenge_of_Plain(code_verifier, method) == code_verifier

\* the challenge generate_pkce_pair computes for a verifier
code_challenge_of(code_verifier, method) ==
    IF method = "S256" THEN Sha256B64(code_verifier) ELSE code_verifier

\* the verifier secrets.choice draws for the n-th generated pair: never one
\* that was drawn before
ProviderVerifier(n) == "p" \o ToString(n)
ProviderVerifiers == { ProviderVerifier(n) : n \in 1..MaxInitiate }

generate_provider_compatible_pkce_Plain(n, method) ==
    <<ProviderVerifier(n), ProviderVerifier(n)>>

\* the pair generate_provider_compatible_pkce returns for the n-th flow
generate_provider_compatible_pkce(n, method) ==
    <<ProviderVerifier(n), code_challenge_of(ProviderVerifier(n), method)>>

\* what a client may send as code_challenge, and as code_verifier
ClientChallenges == {NONE, Sha256B64("v1")}
VerifierInputs ==
    {NONE, Sha256B64("v1")} \cup ClientVerifiers \cup ProviderVerifiers

----------------------------------------------------------------------------
\* State utilities (utils/state.py)

is_entry_expired_Never(entry, expiry_seconds) == FALSE

is_entry_expired(entry, expiry_seconds) ==
    now - entry.created_at > expiry_seconds

cleanup_expired_entries_AtTtl(storage, expiry_seconds) ==
    [k \in {j \in DOMAIN storage : ~(now - storage[j].created_at >= expiry_seconds)}
        |-> storage[k]]

\* the storage that cleanup_expired_entries leaves
cleanup_expired_entries(storage, expiry_seconds) ==
    [k \in {j \in DOMAIN storage : ~(now - storage[j].created_at > expiry_seconds)}
        |-> storage[k]]

\* dict operations
Put(f, k, v) == [x \in DOMAIN f \cup {k} |-> IF x = k THEN v ELSE f[x]]
Pop(f, k) == [x \in DOMAIN f \ {k} |-> f[x]]

\* generate_secure_state(): a token that was never generated before
generate_secure_state == Len(initiated) + 1

----------------------------------------------------------------------------
\* Responses

NoBody == [kind |-> "none"]

ErrorBody(error_description) ==
    [kind |-> "error", error_description |-> error_description]

Response(status, error, body) ==
    [status |-> status, error |-> error, body |-> body]

\* the handler is suspended at an await: no response yet
Suspended == Response(0, NONE, [kind |-> "suspended"])

----------------------------------------------------------------------------
\* Unexpected exceptions: str(e) of the exceptions a handler's `except
\* Exception` may catch

\* the code of a JSON token request that is not a string: a number, a list
NonStringCodes == {"<int>", "<list>"}

\* str(e) of the TypeError that a code that is not a string raises:
\* `code[:10]` for a number, `code not in self._active_codes` for a list
TypeErrorOf(code) ==
    IF code = "<int>" THEN "'int' object is not subscriptable"
    ELSE "unhashable type: 'list'"

\* str(e) of an exception that provider.get_authorization_url raises
AuthorizationUrlErrors == {"Missing \"client_id\" parameter"}

ExceptionMessages ==
    { TypeErrorOf(code) : code \in NonStringCodes } \cup AuthorizationUrlErrors

----------------------------------------------------------------------------
\* Tool calls and the PKCE generator before their first call

\* the tool calls that can run at the same time on the event loop
Callers == 1..MaxCallers

\* no tool call.  The fields other than pc are about the _make_request the
\* tool call's client is in: refreshes counts the refresh_access_token calls
\* its ensure_valid_token issued, refreshed is how the refresh ended, ensured
\* is what ensure_valid_token returned and sent tells whether an HTTP request
\* was sent; later tells, of a request suspended in its refresh, whether the
\* client has made a request before it
NoCall ==
    [ pc |-> "idle",
      later |-> FALSE,
      refreshes |-> 0,
      refreshed |-> "none",
      ensured |-> "pending",
      sent |-> FALSE ]

NoPkceCall == [kind |-> "none"]

\* the threads, and the contexts that code runs in: a thread starts with a
\* context of its own and every asyncio task of its event loop runs in one
Threads == 1..MaxThreads
Contexts == Threads \X (1..MaxTasks)

\* the ContextVar has its default None in every context, and no thread has
\* set the attribute of _thread_local
NoTokens ==
    [access_token_context |-> [k \in Contexts |-> NONE],
     thread_local |-> [th \in Threads |-> NONE]]

\* no _make_request in its retry loop
NoRequest == [pc |-> "idle", max_retries |-> 0, attempt |-> 0, outcomes |-> <<>>]

----------------------------------------------------------------------------
Init ==
    /\ now = 0
    /\ active_states = <<>>
    /\ active_codes = <<>>
    /\ access_token = NONE
    /\ refresh_token = NONE
    /\ expires_at = NoExpiry
    /\ pending = {}
    /\ adapter_calls = {}
    /\ initiated = <<>>
    /\ stored = {}
    /\ consumed = {}
    /\ tool = [c \in Callers |-> NoCall]
    /\ generated = NoPkceCall
    /\ registered = <<>>
    /\ retry = NoRequest
    /\ auth_context = NoTokens

holder == <<access_token, refresh_token, expires_at>>

----------------------------------------------------------------------------
\* OAuthFlow.initiate_authorization

\* the HTTPException(400) raised for bad PKCE parameters is caught by the
\* handler's own `except Exception` and re-raised as HTTPException(500)
initiate_authorization(cc, cm, user_id, redirect_uri) ==
    IF \/ Truthy(cc) /\ Truthy(cm) /\ cm \notin {"S256", "plain"}
       \/ ~(Truthy(cc) /\ Truthy(cm)) /\ (Truthy(cc) \/ Truthy(cm))
    THEN [ response |-> Response(500, NONE,
                           [ kind |-> "http_exception",
                             detail |-> "Failed to initiate OAuth authorization" ]),
           active_states |-> active_states,
           initiated |-> initiated ]
    ELSE LET state == generate_secure_state
             pkce == Truthy(cc) /\ Truthy(cm)
             pair == IF pkce
                     THEN generate_provider_compatible_pkce(state, cm)
                     ELSE <<NONE, NONE>>
             rec == [ created_at |-> now,
                      user_id |-> user_id,
                      client_code_challenge |-> cc,
                      client_code_challenge_method |-> cm,
                      provider_code_verifier |-> pair[1],
                      provider_code_challenge |-> pair[2],
                      provider_code_challenge_method |->
                          IF pkce THEN cm ELSE NONE,
                      client_redirect_uri |-> redirect_uri ]
         IN [ response |-> Response(302, NONE,
                              [ kind |-> "authorization_url",
                                state |-> state,
                                code_challenge |-> rec.provider_code_challenge,
                                code_challenge_method |->
                                    rec.provider_code_challenge_method ]),
              active_states |-> Put(active_states, state, rec),
              initiated |-> Append(initiated, rec.provider_code_verifier) ]

\* the handler's `except Exception as e`
initiate_authorization_except(e) ==
    Response(500, NONE,
        [ kind |-> "http_exception",
          detail |-> "Failed to initiate OAuth authorization" ])

initiate_authorization_raises_Unstored(cc, cm, user_id, redirect_uri, e) ==
    [ response |-> initiate_authorization_except(e),
      active_states |-> active_states,
      initiated |-> initiated ]

\* the run of initiate_authorization in which provider.get_authorization_url
\* raises e (a run that accepted the PKCE parameters): the state record was
\* stored before the call
initiate_authorization_raises(cc, cm, user_id, redirect_uri, e) ==
    LET r == initiate_authorization(cc, cm, user_id, redirect_uri)
    IN [ response |-> initiate_authorization_except(e),
         active_states |-> r.active_states,
         initiated |-> r.initiated ]

\* OAuthConfig.require_pkce, here set (its default is False)
require_pkce == TRUE

\* what a handler that enforced require_pkce would do
authorize_RequiringPkce(required, cc, cm, user_id, redirect_uri) ==
    IF required /\ ~(Truthy(cc) /\ Truthy(cm))
    THEN [ response |-> initiate_authorization_except("PKCE required"),
           active_states |-> active_states,
           initiated |-> initiated ]
    ELSE initiate_authorization(cc, cm, user_id, redirect_uri)

\* the route GET /auth/authorize of a server whose config has require_pkce =
\* required: neither the route nor the flow reads the setting
authorize(required, cc, cm, user_id, redirect_uri) ==
    initiate_authorization(cc, cm, user_id, redirect_uri)

Initiate ==
    \E cc \in ClientChallenges, cm \in Methods, user_id \in UserIds,
       redirect_uri \in RedirectUris :
      \E e \in {NONE} \cup
                 (IF initiate_authorization(cc, cm, user_id,
                         redirect_uri).response.status = 302
                  THEN AuthorizationUrlErrors ELSE {}) :
        LET r == IF e = NONE
                 THEN authorize(require_pkce, cc, cm, user_id, redirect_uri)
                 ELSE initiate_authorization_raises(cc, cm, user_id,
                          redirect_uri, e)
        IN /\ Len(r.initiated) <= MaxInitiate
           /\ active_states' = r.active_states
           /\ initiated' = r.initiated
           /\ UNCHANGED <<tool, generated, registered, retry, auth_context>>
           /\ UNCHANGED <<now, active_codes, holder, pending, adapter_calls,
                          stored, consumed>>

----------------------------------------------------------------------------
\* OAuthFlow.handle_callback

\* what dict.get gives for a key that is absent
NoRecord ==
    [ created_at |-> 0, user_id |-> NONE, state |-> 0, code |-> NONE,
      client_code_challenge |-> NONE, client_code_challenge_method |-> NONE,
      provider_code_verifier |-> NONE, provider_code_challenge |-> NONE,
      provider_code_challenge_method |-> NONE, client_redirect_uri |-> NONE ]

Get(f, k) == IF k \in DOMAIN f THEN f[k] ELSE NoRecord

StateKnown_Always(state) == TRUE

\* `state in self._active_states`
StateKnown(state) == state \in DOMAIN active_states

ConsumeState_NoPop(state) == active_states

\* the store after self._active_states.pop(state)
ConsumeState(state) == Pop(active_states, state)

handle_callback(code, state, error) ==
    IF Truthy(error)
    THEN [ response |-> Response(400, error, ErrorBody("Authorization failed")),
           active_states |-> active_states,
           active_codes |-> active_codes,
           stored |-> stored ]
    ELSE IF ~StateKnown(state)
    THEN [ response |-> Response(400, "invalid_state",
                           ErrorBody("Invalid or expired state parameter")),
           active_states |-> active_states,
           active_codes |-> active_codes,
           stored |-> stored ]
    ELSE LET state_info == Get(active_states, state) IN
         IF is_entry_expired(state_info, state_expiry_seconds)
         THEN [ response |-> Response(400, "expired_state",
                                ErrorBody("State parameter has expired")),
                active_states |-> ConsumeState(state),
                active_codes |-> active_codes,
                stored |-> stored ]
         ELSE LET auth_code_data ==
                      [ code |-> code,
                        state |-> state,
                        user_id |-> state_info.user_id,
                        created_at |-> now,
                        client_code_challenge |->
                            state_info.client_code_challenge,
                        client_code_challenge_method |->
                            state_info.client_code_challenge_method,
                        provider_code_verifier |->
                            state_info.provider_code_verifier ]
              IN [ response |->
                       IF Truthy(state_info.client_redirect_uri)
                       THEN Response(302, NONE,
                                [ kind |-> "redirect",
                                  url |-> state_info.client_redirect_uri,
                                  code |-> code,
                                  state |-> state,
                                  code_challenge |->
                                      IF Truthy(state_info.client_code_challenge)
                                      THEN state_info.client_code_challenge
                                      ELSE NONE,
                                  code_challenge_method |->
                                      IF Truthy(state_info.client_code_challenge)
                                      THEN state_info.client_code_challenge_method
                                      ELSE NONE ])
                       ELSE Response(200, NONE,
                                [ kind |-> "authorization_successful",
                                  code |-> code,
                                  state |-> state ]),
                   active_states |-> ConsumeState(state),
                   active_codes |-> Put(active_codes, code, auth_code_data),
                   stored |-> stored \cup {<<code, state>>} ]

\* the handler's `except Exception as e`
handle_callback_except(e) ==
    Response(500, "callback_failed", ErrorBody(e))

\* the state of a request is any token: one initiate returned, one it will
\* return later, or 0, which it never returns
CallbackStates == 0..MaxInitiate

\* request.query_params.get("state") of a request without a state parameter
NoState == -1

\* the route GET /auth/callback: a request without code or without state is
\* refused before the flow sees it, whether or not it carries an error
callback(code, state, error) ==
    IF ~Truthy(code) \/ state = NoState
    THEN [ response |-> Response(400, NONE,
                           [ kind |-> "http_exception",
                             detail |-> "Missing required parameters" ]),
           active_states |-> active_states,
           active_codes |-> active_codes,
           stored |-> stored ]
    ELSE handle_callback(code, state, error)

\* the requests: every code with every state token, and requests that lack
\* the code or the state (what else they carry makes no difference to the
\* route), each with and without a provider error
CallbackRequests ==
    (Codes \X CallbackStates \X ProviderErrors)
        \cup ({NONE} \X {1} \X ProviderErrors)
        \cup ({"c1"} \X {NoState} \X ProviderErrors)

Callback ==
    \E request \in CallbackRequests :
        LET r == callback(request[1], request[2], request[3])
        IN /\ active_states' = r.active_states
           /\ active_codes' = r.active_codes
           /\ stored' = r.stored
           /\ UNCHANGED <<tool, generated, registered, retry, auth_context>>
           /\ UNCHANGED <<now, holder, pending, adapter_calls, initiated,
                          consumed>>

----------------------------------------------------------------------------
\* OAuthFlow.exchange_code_for_tokens, up to the await of the adapter call

CodeKnown_Always(code) == TRUE

\* `code in self._active_codes`
CodeKnown(code) == code \in DOMAIN active_codes

ConsumeCode_NoPop(code) == active_codes

\* the store after self._active_codes.pop(code)
ConsumeCode(code) == Pop(active_codes, code)

\* `client_code_challenge and client_code_challenge_method`
ClientPkce(auth_data) ==
    Truthy(auth_data.client_code_challenge)
        /\ Truthy(auth_data.client_code_challenge_method)

VerifierMissing_AsInvalidGrant(code_verifier) ==
    Response(400, "invalid_grant",
        ErrorBody("code_verifier required for PKCE flow"))

\* the response to a PKCE exchange that carries no code_verifier
VerifierMissing(code_verifier) ==
    Response(400, "invalid_request",
        ErrorBody("code_verifier required for PKCE flow"))

PkceRejected_Never(auth_data, code_verifier) == FALSE

\* `not is_valid`, for the client's code_verifier
PkceRejected(auth_data, code_verifier) ==
    ~validate_pkce(code_verifier, auth_data.client_code_challenge,
                   auth_data.client_code_challenge_method)

\* a call provider.exchange_code_for_tokens(code, code_verifier, state); n
\* numbers the calls made with the same code and state
AdapterCall(code, code_verifier, state) ==
    [ code |-> code, code_verifier |-> code_verifier, state |-> state,
      n |-> 1 + Cardinality({a \in adapter_calls :
                                a.code = code /\ a.state = state}) ]

AdapterVerifier_ClientVerifier(auth_data, code_verifier) == code_verifier

\* the code_verifier argument of provider.exchange_code_for_tokens
AdapterVerifier(auth_data, code_verifier) == auth_data.provider_code_verifier

exchange_code_for_tokens(code, code_verifier) ==
    IF ~CodeKnown(code)
    THEN [ response |-> Response(400, "invalid_grant",
                           ErrorBody("Invalid or expired authorization code")),
           active_codes |-> active_codes,
           consumed |-> consumed,
           calls |-> {},
           pending |-> {} ]
    ELSE LET auth_data == Get(active_codes, code)
             rejected(response) ==
                 [ response |-> response,
                   active_codes |-> ConsumeCode(code),
                   consumed |-> consumed \cup {<<code, auth_data.state>>},
                   calls |-> {},
                   pending |-> {} ]
         IN
         IF is_entry_expired(auth_data, auth_code_expiry_seconds)
         THEN rejected(Response(400, "invalid_grant",
                           ErrorBody("Authorization code has expired")))
         ELSE IF ClientPkce(auth_data) /\ ~Truthy(code_verifier)
         THEN rejected(VerifierMissing(code_verifier))
         ELSE IF ClientPkce(auth_data) /\ PkceRejected(auth_data, code_verifier)
         THEN rejected(Response(400, "invalid_grant",
                           ErrorBody("PKCE validation failed")))
         ELSE LET call == AdapterCall(code,
                              AdapterVerifier(auth_data, code_verifier),
                              auth_data.state)
              IN [ response |-> Suspended,
                   active_codes |-> ConsumeCode(code),
                   consumed |-> consumed \cup {<<code, auth_data.state>>},
                   calls |-> {call},
                   pending |-> { [ call |-> call,
                                   code_verifier |->
                                       IF ClientPkce(auth_data)
                                       THEN code_verifier ELSE NONE,
                                   auth_data |-> auth_data ] } ]

\* the handler's `except Exception as e`, and the route's, which is the same
exchange_code_for_tokens_except(e) ==
    Response(500, "server_error", ErrorBody(e))

\* the route POST /token.  The HTTPException(400) it raises for a missing code
\* is raised inside its own try block and caught there; str(e) of a starlette
\* HTTPException is "<status_code>: <detail>".  A code that is not a string
\* raises TypeError in the route (a number) or in the flow (a list)
token_exchange(code, code_verifier) ==
    LET refused(e) ==
            [ response |-> exchange_code_for_tokens_except(e),
              active_codes |-> active_codes,
              consumed |-> consumed,
              calls |-> {},
              pending |-> {} ]
    IN IF ~Truthy(code)
       THEN refused("400: Missing required parameter: code")
       ELSE IF code \in NonStringCodes
       THEN refused(TypeErrorOf(code))
       ELSE exchange_code_for_tokens(code, code_verifier)

ExchangeBegin ==
    \E code \in Codes \cup {NONE} \cup NonStringCodes :
      \E code_verifier \in IF code \in Codes THEN VerifierInputs ELSE {NONE} :
        LET r == token_exchange(code, code_verifier)
        IN /\ \A call \in r.calls : call.n <= MaxExchange
           /\ active_codes' = r.active_codes
           /\ consumed' = r.consumed
           /\ adapter_calls' = adapter_calls \cup r.calls
           /\ pending' = pending \cup r.pending
           /\ UNCHANGED <<tool, generated, registered, retry, auth_context>>
           /\ UNCHANGED <<now, active_states, holder, initiated, stored>>

----------------------------------------------------------------------------
\* AirtableOAuthProvider.exchange_code_for_tokens after its await, and the rest
\* of OAuthFlow.exchange_code_for_tokens.  fetch_token returns the provider's
\* token payload or raises, which the adapter turns into (False, None)

NoPayload == [access_token |-> NONE, refresh_token |-> NONE, expires_in |-> 0]

\* what self.client.fetch_token does: it returns the provider's token payload,
\* raises OAuth2Error (the provider rejected the request) or raises another
\* exception (network or HTTP failure)
FetchOutcomes ==
    { [kind |-> "token", token |-> t] : t \in TokenPayloads }
        \cup { [kind |-> "OAuth2Error", token |-> NoPayload],
               [kind |-> "Exception", token |-> NoPayload] }

\* the (success, token) pair AirtableOAuthProvider.exchange_code_for_tokens
\* returns: both kinds of exception are caught and give (False, None)
provider_exchange_code_for_tokens(fetch) ==
    IF fetch.kind = "token"
    THEN [success |-> TRUE, token |-> fetch.token]
    ELSE [success |-> FALSE, token |-> NoPayload]

AdapterOutcomes ==
    { provider_exchange_code_for_tokens(fetch) : fetch \in FetchOutcomes }

TokenDataFalsy_Always(outcome) == TRUE

\* `not token_data`
TokenDataFalsy(outcome) == outcome.token = NoPayload

ExchangeFailed_AsProviderError(outcome) ==
    Response(502, "provider_error",
        ErrorBody("Failed to exchange code for tokens"))

\* the response to an exchange whose adapter call failed
ExchangeFailed(outcome) ==
    Response(400, "invalid_grant",
        ErrorBody("Failed to exchange code for tokens"))

exchange_code_for_tokens_resume(p, outcome) ==
    [ response |->
          IF ~outcome.success \/ TokenDataFalsy(outcome)
          THEN ExchangeFailed(outcome)
          ELSE Response(200, NONE, [kind |-> "token", token |-> outcome.token]),
      access_token |->
          IF outcome.success THEN outcome.token.access_token ELSE access_token,
      refresh_token |->
          IF outcome.success THEN outcome.token.refresh_token ELSE refresh_token,
      expires_at |->
          IF outcome.success /\ outcome.token.expires_in # 0
          THEN now + outcome.token.expires_in
          ELSE expires_at ]

ExchangeReturn ==
    \E p \in pending, outcome \in AdapterOutcomes :
        LET r == exchange_code_for_tokens_resume(p, outcome)
        IN /\ pending' = pending \ {p}
           /\ access_token' = r.access_token
           /\ refresh_token' = r.refresh_token
           /\ expires_at' = r.expires_at
           /\ UNCHANGED <<tool, generated, registered, retry, auth_context>>
           /\ UNCHANGED <<now, active_states, active_codes, adapter_calls,
                          initiated, stored, consumed>>

----------------------------------------------------------------------------
\* The route POST /oauth/refresh and AirtableOAuthProvider.refresh_access_token.
\* The handler reads and writes no field before the adapter's call of the
\* provider returns, so the request is one step, taken when the call returns.
\* No handler of the flow reads the token fields, and a refresh touches
\* neither store: the token fields under refresh are explored on their own
\* (HolderSpec)

\* the refresh_token parameter of a request (NONE when it is missing)
RefreshTokens == {NONE, "rt0"}

\* the token payloads the provider returns to a refresh (RFC 6749, 5.1: the
\* access token is required): the refresh token may be rotated or absent
\* (NONE), expires_in may be absent (0)
RefreshPayloads ==
    [ access_token : {"at2"},
      refresh_token : {NONE, "rt2"},
      expires_in : {0, 900, 901} ]

\* what self.client.refresh_token does: it returns a payload or raises
RefreshFetchOutcomes ==
    { [kind |-> "token", token |-> t] : t \in RefreshPayloads }
        \cup { [kind |-> "OAuth2Error", token |-> NoPayload],
               [kind |-> "Exception", token |-> NoPayload] }

provider_refresh_access_token_ClearsOnFailure(refresh_token_value, fetch) ==
    IF fetch.kind = "token"
    THEN [ success |-> TRUE,
           token |-> fetch.token,
           access_token |-> fetch.token.access_token,
           refresh_token |-> IF fetch.token.refresh_token # NONE
                             THEN fetch.token.refresh_token
                             ELSE refresh_token,
           expires_at |-> IF fetch.token.expires_in # 0
                          THEN now + fetch.token.expires_in
                          ELSE expires_at ]
    ELSE [ success |-> FALSE,
           token |-> NoPayload,
           access_token |-> NONE,
           refresh_token |-> refresh_token,
           expires_at |-> expires_at ]

\* the (success, token) pair and the token fields that
\* AirtableOAuthProvider.refresh_access_token leaves: both kinds of exception
\* are caught and give (False, None)
provider_refresh_access_token(refresh_token_value, fetch) ==
    IF fetch.kind = "token"
    THEN [ success |-> TRUE,
           token |-> fetch.token,
           access_token |-> fetch.token.access_token,
           refresh_token |-> IF fetch.token.refresh_token # NONE
                             THEN fetch.token.refresh_token
                             ELSE refresh_token,
           expires_at |-> IF fetch.token.expires_in # 0
                          THEN now + fetch.token.expires_in
                          ELSE expires_at ]
    ELSE [ success |-> FALSE,
           token |-> NoPayload,
           access_token |-> access_token,
           refresh_token |-> refresh_token,
           expires_at |-> expires_at ]

\* the response to a refresh request whose adapter call failed
RefreshFailed(outcome) ==
    Response(400, "refresh_failed",
        ErrorBody("Failed to refresh access token"))

refresh_token_route(refresh_token_value, fetch) ==
    IF ~Truthy(refresh_token_value)
    THEN [ response |-> Response(400, NONE,
                           [ kind |-> "http_exception",
                             detail |-> "Missing refresh_token parameter" ]),
           access_token |-> access_token,
           refresh_token |-> refresh_token,
           expires_at |-> expires_at ]
    ELSE LET outcome == provider_refresh_access_token(refresh_token_value, fetch)
         IN [ response |->
                  IF ~outcome.success \/ TokenDataFalsy(outcome)
                  THEN RefreshFailed(outcome)
                  ELSE Response(200, NONE,
                           [kind |-> "token", token |-> outcome.token]),
              access_token |-> outcome.access_token,
              refresh_token |-> outcome.refresh_token,
              expires_at |-> outcome.expires_at ]

Refresh ==
    \E refresh_token_value \in RefreshTokens, fetch \in RefreshFetchOutcomes :
        LET r == refresh_token_route(refresh_token_value, fetch)
        IN /\ access_token' = r.access_token
           /\ refresh_token' = r.refresh_token
           /\ expires_at' = r.expires_at
           /\ UNCHANGED <<tool, generated, registered, retry, auth_context>>
           /\ UNCHANGED <<now, active_states, active_codes, pending,
                          adapter_calls, initiated, stored, consumed>>

----------------------------------------------------------------------------
\* The token holder of AirtableOAuthProvider (is_token_expired,
\* ensure_valid_token, revoke_token) and its users: the tool calls of
\* AirtableMCPServer, each with an AirtableClient over the one provider of the
\* server.  A coroutine runs atomically up to an await: ensure_valid_token
\* awaits the refresh, _make_request awaits the rate limit's sleep and the
\* HTTP response

TOKEN_EXPIRY_MARGIN == 300

\* the bearer token the middleware took from the Authorization header of the
\* request that caller c serves (NONE when the context holds none): every
\* inbound request carries a token of its own
BearerOf(c) == "b" \o ToString(c)
Bearers(c) == {NONE, BearerOf(c)}

\* the token parameter of a revocation request (NONE when it is missing)
RevokeTokens == {NONE, "at1", "zz"}

Holder(a, r, e) == [access_token |-> a, refresh_token |-> r, expires_at |-> e]

\* the token fields as they are now
self == Holder(access_token, refresh_token, expires_at)

is_token_expired_NoMargin(h) ==
    IF ~Truthy(h.access_token) \/ h.expires_at = NoExpiry \/ h.expires_at = 0
    THEN TRUE
    ELSE now >= h.expires_at

\* `not self.expires_at` is true of None and of 0
is_token_expired(h) ==
    IF ~Truthy(h.access_token) \/ h.expires_at = NoExpiry \/ h.expires_at = 0
    THEN TRUE
    ELSE now + TOKEN_EXPIRY_MARGIN >= h.expires_at

\* the token parameter of an introspection (NONE and "" when the caller
\* passes none): the holder's tokens and a token the holder never had
IntrospectTokens == {NONE, "", "at1", "at2", "zz"}

\* introspect_token returns None
NoTokenInfo == [returned |-> "None"]

target_token_Own(h, token) == h.access_token

\* `token or self.access_token`
target_token(h, token) == IF Truthy(token) THEN token ELSE h.access_token

\* AirtableOAuthProvider.introspect_token: Airtable has no introspection
\* endpoint, the answer is made of the adapter's own fields
introspect_token(h, token) ==
    IF ~Truthy(target_token(h, token))
    THEN NoTokenInfo
    ELSE [returned |-> "dict",
          active |-> ~is_token_expired(h),
          client_id |-> "config.client_id",
          scope |-> "config.scope",
          exp |-> h.expires_at,
          token_type |-> "Bearer"]

PassThrough_Never(h) == FALSE

\* `self.access_token and not self.refresh_token`
PassThrough(h) == Truthy(h.access_token) /\ ~Truthy(h.refresh_token)

\* ensure_valid_token up to its await: it returns a value, or it is suspended
\* in refresh_access_token(self.refresh_token).  It assigns nothing before
ensure_valid_token(h) ==
    IF PassThrough(h) THEN [kind |-> "return", value |-> TRUE]
    ELSE IF ~is_token_expired(h) THEN [kind |-> "return", value |-> TRUE]
    ELSE IF Truthy(h.refresh_token) THEN [kind |-> "await", value |-> FALSE]
    ELSE [kind |-> "return", value |-> FALSE]

\* get_auth_headers: the Authorization header of the holder's access token
get_auth_headers(h) ==
    IF ~Truthy(h.access_token) THEN "ValueError"
    ELSE "Bearer " \o h.access_token

\* get_auth_headers and the first client.request of the retry loop
send(t, h) ==
    IF get_auth_headers(h) = "ValueError"
    THEN [t EXCEPT !.pc = "ValueError"]
    ELSE [t EXCEPT !.pc = "requesting", !.sent = TRUE]

AuthRefused_Never(ok) == FALSE

\* `if not await self.oauth_handler.ensure_valid_token()`
AuthRefused(ok) == ~ok

\* the sleep of _ensure_rate_limit: a client sleeps when it has made
\* RATE_LIMIT_REQUESTS_PER_SECOND requests within the window, so never before
\* the first request of a tool call, whose client is new
Limits(t) == IF t.later THEN BOOLEAN ELSE {FALSE}

\* _make_request from the return of ensure_valid_token to its next await:
\* limited tells whether _ensure_rate_limit has to sleep
after_ensure(t, h, ok, limited) ==
    IF AuthRefused(ok)
    THEN [t EXCEPT !.pc = "AirtableAuthError",
                   !.ensured = IF ok THEN "true" ELSE "false"]
    ELSE IF limited
    THEN [t EXCEPT !.pc = "limited", !.ensured = IF ok THEN "true" ELSE "false"]
    ELSE send([t EXCEPT !.ensured = IF ok THEN "true" ELSE "false"], h)

\* _make_request up to its first await, on a holder h
make_request(t, h, limited) ==
    LET e == ensure_valid_token(h)
        begun == [NoCall EXCEPT !.pc = "begun"]
    IN IF e.kind = "await"
       THEN [begun EXCEPT !.pc = "refreshing", !.refreshes = 1,
                          !.later = (t.pc = "returned")]
       ELSE after_ensure(begun, h, e.value, limited)

\* a tool of AirtableMCPServer: _get_authenticated_client assigns the bearer
\* token of the request to provider.access_token and builds the client, whose
\* first _make_request follows without an await in between.  Without a token
\* in the context require_access_token raises before anything is assigned
ToolCall ==
    \E c \in Callers, limited \in Limits(NoCall) :
      \E bearer \in Bearers(c) :
        /\ tool[c].pc = "idle"
        /\ IF ~Truthy(bearer)
           THEN /\ tool' = [tool EXCEPT ![c].pc = "HTTPException"]
                /\ UNCHANGED access_token
           ELSE /\ access_token' = bearer
                /\ tool' = [tool EXCEPT ![c] =
                               make_request(tool[c],
                                   Holder(bearer, refresh_token, expires_at),
                                   limited)]
        /\ UNCHANGED <<now, active_states, active_codes, refresh_token,
                       expires_at, pending, adapter_calls, initiated, stored,
                       consumed, generated, registered, retry, auth_context>>

\* a later _make_request of the same client (list_records asks page by page)
NextRequest ==
    \E c \in Callers, limited \in BOOLEAN :
        /\ tool[c].pc = "returned"
        /\ tool' = [tool EXCEPT ![c] = make_request(tool[c], self, limited)]
        /\ UNCHANGED <<now, active_states, active_codes, holder, pending,
                       adapter_calls, initiated, stored, consumed, generated, registered, retry, auth_context>>

RefreshSucceeded_Always(outcome) == TRUE

\* `if success and token_data`
RefreshSucceeded(outcome) == outcome.success /\ ~TokenDataFalsy(outcome)

ensure_valid_token_resume_KeepAccessToken(fetch) ==
    LET outcome == provider_refresh_access_token(refresh_token, fetch)
    IN [ value |-> RefreshSucceeded(outcome),
         access_token |-> access_token,
         refresh_token |-> outcome.refresh_token,
         expires_at |-> outcome.expires_at ]

\* the token fields ensure_valid_token leaves when its refresh has returned:
\* refresh_access_token has assigned the fields, then ensure_valid_token
\* assigns them again from token_data
ensure_valid_token_resume(fetch) ==
    LET outcome == provider_refresh_access_token(refresh_token, fetch)
        success == RefreshSucceeded(outcome)
    IN [ value |-> success,
         access_token |-> IF success THEN outcome.token.access_token
                          ELSE outcome.access_token,
         refresh_token |-> IF success /\ outcome.token.refresh_token # NONE
                           THEN outcome.token.refresh_token
                           ELSE outcome.refresh_token,
         expires_at |-> IF success /\ outcome.token.expires_in # 0
                        THEN now + outcome.token.expires_in
                        ELSE outcome.expires_at ]

\* the refresh a tool call awaits returns; _make_request goes on
EnsureReturn ==
    \E c \in Callers, fetch \in RefreshFetchOutcomes :
      \E limited \in Limits(tool[c]) :
        /\ tool[c].pc = "refreshing"
        /\ LET r == ensure_valid_token_resume(fetch)
               t == [tool[c] EXCEPT
                        !.later = FALSE,
                        !.refreshed = IF fetch.kind = "token" THEN "ok"
                                      ELSE "failed"]
           IN /\ access_token' = r.access_token
              /\ refresh_token' = r.refresh_token
              /\ expires_at' = r.expires_at
              /\ tool' = [tool EXCEPT ![c] =
                             after_ensure(t,
                                 Holder(r.access_token, r.refresh_token,
                                        r.expires_at),
                                 r.value, limited)]
        /\ UNCHANGED <<now, active_states, active_codes, pending,
                       adapter_calls, initiated, stored, consumed, generated, registered, retry, auth_context>>

\* the sleep of _ensure_rate_limit is over
RateLimitWake ==
    \E c \in Callers :
        /\ tool[c].pc = "limited"
        /\ tool' = [tool EXCEPT ![c] = send(tool[c], self)]
        /\ UNCHANGED <<now, active_states, active_codes, holder, pending,
                       adapter_calls, initiated, stored, consumed, generated, registered, retry, auth_context>>

\* what comes back for the HTTP request and its retries: a response that is
\* returned, or a failure that is raised (at once, or when the retries of a
\* 429 or of a request error are used up)
HttpOutcomes == {"success", "failure"}

\* the retry loop of _make_request ends
HttpReturn ==
    \E c \in Callers, outcome \in HttpOutcomes :
        /\ tool[c].pc = "requesting"
        /\ tool' = [tool EXCEPT ![c].pc =
               IF outcome = "success" THEN "returned" ELSE "AirtableAPIError"]
        /\ UNCHANGED <<now, active_states, active_codes, holder, pending,
                       adapter_calls, initiated, stored, consumed, generated, registered, retry, auth_context>>

\* the positions at which a tool call can end: its client's request has
\* returned, or an exception leaves the tool
Ended ==
    {"returned", "AirtableAuthError", "ValueError", "AirtableAPIError",
     "HTTPException"}

\* the tool call ends
ToolEnd ==
    \E c \in Callers :
        /\ tool[c].pc \in Ended
        /\ tool' = [tool EXCEPT ![c] = NoCall]
        /\ UNCHANGED <<now, active_states, active_codes, holder, pending,
                       adapter_calls, initiated, stored, consumed, generated, registered, retry, auth_context>>

revoke_token_KeepRefresh(token) ==
    [ success |-> TRUE,
      access_token |-> NONE,
      refresh_token |-> refresh_token,
      expires_at |-> NoExpiry ]

\* AirtableOAuthProvider.revoke_token: the argument is not read
revoke_token(token) ==
    [ success |-> TRUE,
      access_token |-> NONE,
      refresh_token |-> NONE,
      expires_at |-> NoExpiry ]

\* the route POST /oauth/revoke
revoke_token_route(token) ==
    IF ~Truthy(token)
    THEN [ response |-> Response(400, NONE,
                           [ kind |-> "http_exception",
                             detail |-> "Missing token parameter" ]),
           access_token |-> access_token,
           refresh_token |-> refresh_token,
           expires_at |-> expires_at ]
    ELSE LET r == revoke_token(token)
         IN [ response |->
                  IF r.success
                  THEN Response(200, NONE,
                           [ kind |-> "status", status |-> "success" ])
                  ELSE Response(400, "revocation_failed",
                           ErrorBody("Failed to revoke token")),
              access_token |-> r.access_token,
              refresh_token |-> r.refresh_token,
              expires_at |-> r.expires_at ]

RevokeWith(token) ==
    LET r == revoke_token_route(token)
    IN /\ access_token' = r.access_token
       /\ refresh_token' = r.refresh_token
       /\ expires_at' = r.expires_at
       /\ UNCHANGED <<now, active_states, active_codes, pending,
                      adapter_calls, initiated, stored, consumed, tool, generated, registered, retry, auth_context>>

Revoke == \E token \in RevokeTokens : RevokeWith(token)

----------------------------------------------------------------------------
\* The PKCE generator, character by character (utils/pkce.py).  A verifier is
\* the string of the characters secrets.choice draws; the flow above uses the
\* generator through its n-th result (generate_provider_compatible_pkce)

\* string.ascii_letters + string.digits + '-._~'
RFC7636Set ==
    "abcdefghijklmnopqrstuvwxyzABCDEFGHIJKLMNOPQRSTUVWXYZ0123456789-._~"

\* the character_set of AirtableProviderConfig.get_pkce_requirements
AirtableSet ==
    "abcdefghijklmnopqrstuvwxyzABCDEFGHIJKLMNOPQRSTUVWXYZ0123456789.-_"

\* the arguments of generate_pkce_pair (character_set NONE: the default)
PkceMethods == {"S256", "plain", "md5"}
Lengths == {42, 43, 128, 129}
CharacterSets == {NONE, AirtableSet, "ab", ""}

\* a key that a requirements dictionary does not have
NoLength == -1

\* the provider_requirements dictionaries: Airtable's, an empty one, one
\* with stricter lengths, one without character_set and one whose max_length
\* is beyond RFC 7636
Requirements ==
    { [min_length |-> 43, max_length |-> 128, character_set |-> AirtableSet],
      [min_length |-> NoLength, max_length |-> NoLength, character_set |-> NONE],
      [min_length |-> 50, max_length |-> 80, character_set |-> "ABC123"],
      [min_length |-> NoLength, max_length |-> 60, character_set |-> NONE],
      [min_length |-> 43, max_length |-> 256, character_set |-> "ab"] }

NoRequirements ==
    [min_length |-> NoLength, max_length |-> NoLength, character_set |-> ""]

\* the characters of a string
CharAt(s, i) == SubSeq(s, i, i)
Chars(s) == { CharAt(s, i) : i \in 1..Len(s) }

RECURSIVE Repeat(_, _)
Repeat(ch, n) ==
    IF n <= 0 THEN ""
    ELSE LET half == Repeat(ch, n \div 2)
         IN IF n % 2 = 0 THEN half \o half ELSE half \o half \o ch

\* what secrets.choice draws in the calls of one generation: the same
\* character (the first or the last of the set) every time, but for one call
\* (none, the first or the last) that draws the other one
Draws == [base : {"first", "last"}, at : {"none", "first", "last"}]

Pick(character_set, which) ==
    IF which = "first" THEN CharAt(character_set, 1)
    ELSE CharAt(character_set, Len(character_set))

\* ''.join(secrets.choice(character_set) for _ in range(length))
Verifier(character_set, length, draw) ==
    LET base == Pick(character_set, draw.base)
        other == Pick(character_set,
                     IF draw.base = "first" THEN "last" ELSE "first")
    IN IF draw.at = "none" THEN Repeat(base, length)
       ELSE IF draw.at = "first" THEN other \o Repeat(base, length - 1)
       ELSE Repeat(base, length - 1) \o other

Returns(code_verifier, code_challenge) ==
    [ kind |-> "pair", error |-> NONE,
      code_verifier |-> code_verifier, code_challenge |-> code_challenge ]

Raises(error) ==
    [ kind |-> "raises", error |-> error,
      code_verifier |-> NONE, code_challenge |-> NONE ]

generate_pkce_pair(method, length, character_set, draw) ==
    IF length < 43 \/ length > 128
    THEN Raises("ValueError: Code verifier length must be between 43 and 128 characters")
    ELSE LET set == IF character_set = NONE THEN RFC7636Set ELSE character_set
         IN IF set = ""
            THEN Raises("IndexError: Cannot choose from an empty sequence")
            ELSE IF method \in {"S256", "plain"}
            THEN Returns(Verifier(set, length, draw),
                     code_challenge_of(Verifier(set, length, draw), method))
            ELSE Raises("ValueError: Unsupported PKCE method")

ProviderLength_Min(provider_requirements) ==
    IF provider_requirements.min_length = NoLength THEN 43
    ELSE provider_requirements.min_length

\* `length = max_length`, with provider_requirements.get('max_length', 128)
ProviderLength(provider_requirements) ==
    IF provider_requirements.max_length = NoLength THEN 128
    ELSE provider_requirements.max_length

\* generate_provider_compatible_pkce on a requirements dictionary
generate_provider_compatible(provider_requirements, method, draw) ==
    generate_pkce_pair(method, ProviderLength(provider_requirements),
        provider_requirements.character_set, draw)

\* the generator's call and result, as the variable generated keeps them:
\* earlier is the pair of the last call before this one that returned a pair
Called(by, provider_requirements, method, length, character_set, result) ==
    [ by |-> by,
      provider_requirements |-> provider_requirements,
      method |-> method,
      length |-> length,
      character_set |-> character_set,
      result |-> result,
      earlier |-> IF generated.kind = "none" THEN {}
                  ELSE IF generated.result.kind = "pair"
                  THEN { [ code_verifier |-> generated.result.code_verifier,
                           code_challenge |-> generated.result.code_challenge,
                           method |-> generated.method ] }
                  ELSE generated.earlier,
      kind |-> "call" ]

GeneratePkcePair ==
    \E method \in PkceMethods, length \in Lengths,
       character_set \in CharacterSets, draw \in Draws :
        /\ generated' = Called("generate_pkce_pair", NoRequirements, method,
                            length, character_set,
                            generate_pkce_pair(method, length, character_set,
                                draw))
        /\ UNCHANGED <<now, active_states, active_codes, holder, pending,
                       adapter_calls, initiated, stored, consumed, tool, registered, retry, auth_context>>

GenerateProviderCompatible ==
    \E provider_requirements \in Requirements, method \in PkceMethods,
       draw \in Draws :
        /\ generated' = Called("generate_provider_compatible_pkce",
                            provider_requirements, method,
                            ProviderLength(provider_requirements),
                            provider_requirements.character_set,
                            generate_provider_compatible(provider_requirements,
                                method, draw))
        /\ UNCHANGED <<now, active_states, active_codes, holder, pending,
                       adapter_calls, initiated, stored, consumed, tool, registered, retry, auth_context>>

----------------------------------------------------------------------------
\* The route POST /oauth/register (core/server.py).  The server keeps no
\* record of the clients it registers; registered is the log of its answers

\* what a registration request carries (NONE for a field it lacks)
RegistrationRequests ==
    [ redirect_uris : {NONE, "https://client/cb"},
      grant_types : {NONE, "authorization_code"} ]

\* the redirect URIs and grant types of a request that names none
DefaultRedirectUris == "<base_url>/auth/callback, http://localhost:3000/callback, urn:ietf:wg:oauth:2.0:oob"
DefaultGrantTypes == "authorization_code, refresh_token"

\* f"mcp-client-{int(time.time())}" and f"mcp-secret-{int(time.time())}"
ClientCredential(prefix) == prefix \o ToString(now)

register_client(registration_request) ==
    [ client_id |-> ClientCredential("mcp-client-"),
      client_secret |-> ClientCredential("mcp-secret-"),
      redirect_uris |-> IF Truthy(registration_request.redirect_uris)
                        THEN registration_request.redirect_uris
                        ELSE DefaultRedirectUris,
      grant_types |-> IF registration_request.grant_types # NONE
                      THEN registration_request.grant_types
                      ELSE DefaultGrantTypes,
      client_id_issued_at |-> now ]

Register ==
    \E registration_request \in RegistrationRequests :
        /\ Len(registered) < MaxRegister
        /\ registered' = Append(registered, register_client(registration_request))
        /\ UNCHANGED <<now, active_states, active_codes, holder, pending,
                       adapter_calls, initiated, stored, consumed, tool,
                       generated, retry, auth_context>>

----------------------------------------------------------------------------
\* AuthContext (auth/context.py).  A context k is <<thread, task>>.

\* the tokens the code running in thread th sets: the bearer token of a
\* request, of which extract_bearer_token passes on no empty one; a direct
\* caller can set any string
TokensOf(th) == {"", "tok" \o ToString(th)}

\* getattr(_thread_local, "access_token", None) in thread th
ThreadLocal_Shared(ac, th) == ac.thread_local[1]

ThreadLocal(ac, th) == ac.thread_local[th]

\* AuthContext.set_access_token called in context k
set_access_token(ac, k, token) ==
    [access_token_context |-> [ac.access_token_context EXCEPT ![k] = token],
     thread_local |-> [ac.thread_local EXCEPT ![k[1]] = token]]

\* AuthContext.get_access_token called in context k
get_access_token(ac, k) ==
    LET token == ac.access_token_context[k]
    IN IF Truthy(token) THEN token ELSE ThreadLocal(ac, k[1])

\* AuthContext.clear_access_token called in context k
clear_access_token(ac, k) ==
    [access_token_context |-> [ac.access_token_context EXCEPT ![k] = NONE],
     thread_local |-> [ac.thread_local EXCEPT ![k[1]] = NONE]]

SetAccessToken(k) ==
    \E token \in TokensOf(k[1]) :
        /\ auth_context' = set_access_token(auth_context, k, token)
        /\ UNCHANGED <<now, active_states, active_codes, holder, pending,
                       adapter_calls, initiated, stored, consumed, tool,
                       generated, registered, retry>>

ClearAccessToken(k) ==
    /\ auth_context' = clear_access_token(auth_context, k)
    /\ UNCHANGED <<now, active_states, active_codes, holder, pending,
                   adapter_calls, initiated, stored, consumed, tool,
                   generated, registered, retry>>

----------------------------------------------------------------------------
\* The retry loop of AirtableClient._make_request (api/client.py), attempt by
\* attempt: `for attempt in range(self.max_retries + 1)`

\* what comes back for one client.request: a response with its status code,
\* or an exception of httpx (TimeoutException is a RequestError)
HttpResults ==
    {"200", "200 not JSON", "401", "404", "422", "429", "500",
     "RequestError", "TimeoutException"}

\* the exception that a response raises inside the try block, NONE when the
\* response is returned to the caller
Raised(result) ==
    IF result = "200" THEN NONE
    ELSE IF result = "401" THEN "AirtableAuthError"
    ELSE IF result = "404" THEN "AirtableNotFoundError"
    ELSE IF result = "422" THEN "AirtableValidationError"
    ELSE IF result = "429" THEN "AirtableRateLimitError"
    ELSE IF result \in {"RequestError", "TimeoutException"} THEN result
    ELSE "AirtableAPIError"

\* the exceptions the two except clauses of the loop catch
Caught == {"AirtableRateLimitError", "RequestError", "TimeoutException"}

CanRetry_Always(attempt, max_retries) == TRUE

\* `if attempt < self.max_retries`
CanRetry(attempt, max_retries) == attempt < max_retries

\* the loop after client.request of this attempt has come back
after_request(r, result) ==
    LET e == Raised(result)
        seen == [r EXCEPT !.outcomes = Append(r.outcomes, result)]
    IN IF e = NONE THEN [seen EXCEPT !.pc = "returned"]
       ELSE IF e \notin Caught THEN [seen EXCEPT !.pc = e]
       ELSE IF CanRetry(r.attempt, r.max_retries)
       THEN [seen EXCEPT !.pc = "sleeping"]
       ELSE IF e = "AirtableRateLimitError"
       THEN [seen EXCEPT !.pc = "AirtableRateLimitError"]
       ELSE [seen EXCEPT !.pc = "AirtableAPIError"]

\* the loop after asyncio.sleep(wait_time) and `continue`: the next attempt,
\* or the end of the range and the raise that follows the loop
after_sleep(r) ==
    IF r.attempt + 1 <= r.max_retries
    THEN [r EXCEPT !.pc = "requesting", !.attempt = r.attempt + 1]
    ELSE [r EXCEPT !.pc = "AirtableAPIError"]

\* a _make_request reaches its retry loop and sends its first request, in a
\* client built with max_retries
RequestBegin ==
    \E max_retries \in 0..MaxRetries :
        /\ retry.pc = "idle"
        /\ retry' = [NoRequest EXCEPT !.pc = "requesting",
                                        !.max_retries = max_retries]
        /\ UNCHANGED <<now, active_states, active_codes, holder, pending,
                       adapter_calls, initiated, stored, consumed, tool,
                       generated, registered, auth_context>>

\* client.request comes back: every request runs under timeout=self.timeout
RequestReturn ==
    \E result \in HttpResults :
        /\ retry.pc = "requesting"
        /\ retry' = after_request(retry, result)
        /\ UNCHANGED <<now, active_states, active_codes, holder, pending,
                       adapter_calls, initiated, stored, consumed, tool,
                       generated, registered, auth_context>>

\* the sleep before a retry is over
RequestWake ==
    /\ retry.pc = "sleeping"
    /\ retry' = after_sleep(retry)
    /\ UNCHANGED <<now, active_states, active_codes, holder, pending,
                   adapter_calls, initiated, stored, consumed, tool,
                   generated, registered, auth_context>>

\* the positions at which _make_request has ended
RequestEnded ==
    {"returned", "AirtableAuthError", "AirtableNotFoundError",
     "AirtableValidationError", "AirtableRateLimitError", "AirtableAPIError"}

\* the caller has the result or the exception; the client is free for its
\* next _make_request
RequestEnd ==
    /\ retry.pc \in RequestEnded
    /\ retry' = NoRequest
    /\ UNCHANGED <<now, active_states, active_codes, holder, pending,
                   adapter_calls, initiated, stored, consumed, tool,
                   generated, registered, auth_context>>

----------------------------------------------------------------------------
\* OAuthFlow.cleanup_expired_entries

Cleanup ==
    /\ active_states' = cleanup_expired_entries(active_states, state_expiry_seconds)
    /\ active_codes' = cleanup_expired_entries(active_codes, auth_code_expiry_seconds)
    /\ UNCHANGED <<tool, generated, registered, retry, auth_context>>
    /\ UNCHANGED <<now, holder, pending, adapter_calls, initiated, stored,
                   consumed>>

\* the clock
Tick ==
    \E d \in TickSteps :
        /\ now + d <= MaxTime
        /\ now' = now + d
        /\ UNCHANGED <<tool, generated, registered, retry, auth_context>>
        /\ UNCHANGED <<active_states, active_codes, holder, pending,
                       adapter_calls, initiated, stored, consumed>>

----------------------------------------------------------------------------
Next ==
    \/ Initiate
    \/ Callback
    \/ ExchangeBegin
    \/ ExchangeReturn
    \/ Cleanup
    \/ Tick

Spec == Init /\ [][Next]_vars

\* Progress.  Time passes, and an adapter call that is awaited returns (the
\* provider answers or the call fails).  Requests are the clients' choice.
\* Nothing in the repository calls cleanup_expired_entries: no timer or task
\* is created for it, so a sweep is a step that may never be taken
LiveSpec ==
    Init /\ [][Next]_vars /\ WF_vars(Tick) /\ WF_vars(ExchangeReturn)

\* the three routes of the flow alone, at one moment: no sweep and no clock
RoutesNext ==
    \/ Initiate
    \/ Callback
    \/ ExchangeBegin
    \/ ExchangeReturn

RoutesSpec == Init /\ [][RoutesNext]_vars

\* the state store alone: the requests that write it, the sweep and the clock
StateStoreNext ==
    \/ Initiate
    \/ Callback
    \/ Cleanup
    \/ Tick

StateStoreSpec == Init /\ [][StateStoreNext]_vars

\* the registration route under requests at the same and at different times
RegisterNext ==
    \/ Register
    \/ Tick

RegisterSpec == Init /\ [][RegisterNext]_vars

\* AuthContext under calls from every context of every thread
ContextNext ==
    \/ \E k \in Contexts : SetAccessToken(k)
    \/ \E k \in Contexts : ClearAccessToken(k)

ContextSpec == Init /\ [][ContextNext]_vars

\* the retry loop of _make_request
RetryNext ==
    \/ RequestBegin
    \/ RequestReturn
    \/ RequestWake
    \/ RequestEnd

RetrySpec == Init /\ [][RetryNext]_vars

\* Progress of the retry loop: client.request comes back, with a response or
\* with the TimeoutException of its timeout, and asyncio.sleep returns
RetryLiveSpec ==
    Init /\ [][RetryNext]_vars /\ WF_vars(RequestReturn) /\ WF_vars(RequestWake)

\* the token fields under refresh and revocation requests and tool calls
HolderNext ==
    \/ Refresh
    \/ Revoke
    \/ ToolCall
    \/ NextRequest
    \/ EnsureReturn
    \/ RateLimitWake
    \/ HttpReturn
    \/ ToolEnd
    \/ Tick

HolderSpec == Init /\ [][HolderNext]_vars

\* the PKCE generator under calls with every kind of argument
PkceNext ==
    \/ GeneratePkcePair
    \/ GenerateProviderCompatible

PkceSpec == Init /\ [][PkceNext]_vars

----------------------------------------------------------------------------
\* Claims

InvalidGrant(response) ==
    response.status = 400 /\ response.error = "invalid_grant"

\* the exchange request reaches no adapter and leaves no suspended handler
NoAdapterCall(r) == r.calls = {} /\ r.pending = {}

\* C1: a code record reaches the adapter at most once.  The request that found
\* the record took it out of the store before it was suspended at the adapter
\* call, so an exchange of the same code handled meanwhile finds no record, is
\* answered 400 invalid_grant and calls no adapter; when the adapter succeeds,
\* the suspended request is the one that returns the tokens.
C1_SingleUseUnderConcurrency ==
    /\ \A a \in adapter_calls : a.n = 1
    /\ \A p \in pending :
        /\ p.call \in adapter_calls
        /\ CodeKnown(p.call.code) =>
               active_codes[p.call.code].state # p.call.state
        /\ ~CodeKnown(p.call.code) =>
               \A code_verifier \in VerifierInputs :
                   LET r == exchange_code_for_tokens(p.call.code, code_verifier)
                   IN InvalidGrant(r.response) /\ NoAdapterCall(r)
        /\ \A outcome \in AdapterOutcomes :
               outcome.success /\ ~TokenDataFalsy(outcome) =>
                   LET r == exchange_code_for_tokens_resume(p, outcome)
                   IN r.response.status = 200
                          /\ r.response.body.token = outcome.token

\* a request is suspended at the adapter and its code is not in the store
C1_Witness ==
    \E p \in pending : ~CodeKnown(p.call.code)

\* the age of a stored record is within its time to live
Fresh(entry, expiry_seconds) == now - entry.created_at <= expiry_seconds

\* C2: when the code record carries a client challenge, a request reaches the
\* adapter (the only way to a token payload) only with a verifier that
\* validates against the stored challenge and method; an exchange with any
\* other verifier, the record's own provider verifier included, is answered
\* 400 and calls no adapter.
C2_TokensOnlyForClientVerifier ==
    /\ \A p \in pending :
           Truthy(p.auth_data.client_code_challenge) =>
               validate_pkce(p.code_verifier,
                             p.auth_data.client_code_challenge,
                             p.auth_data.client_code_challenge_method)
    /\ \A code \in DOMAIN active_codes, code_verifier \in VerifierInputs :
           LET auth_data == active_codes[code]
               r == exchange_code_for_tokens(code, code_verifier)
           IN Truthy(auth_data.client_code_challenge)
                  /\ ~validate_pkce(code_verifier,
                                    auth_data.client_code_challenge,
                                    auth_data.client_code_challenge_method)
              => r.response.status = 400 /\ NoAdapterCall(r)
    /\ \A code \in DOMAIN active_codes :
           LET auth_data == active_codes[code]
               r == exchange_code_for_tokens(code,
                        auth_data.provider_code_verifier)
           IN Truthy(auth_data.client_code_challenge)
                  /\ ~validate_pkce(auth_data.provider_code_verifier,
                                    auth_data.client_code_challenge,
                                    auth_data.client_code_challenge_method)
              => r.response.status = 400 /\ NoAdapterCall(r)

\* a PKCE exchange has passed validation, and a fresh PKCE record whose
\* provider verifier does not match the client challenge is in the store
C2_Witness ==
    /\ \E p \in pending : Truthy(p.auth_data.client_code_challenge)
    /\ \E code \in DOMAIN active_codes :
           /\ Truthy(active_codes[code].client_code_challenge)
           /\ Fresh(active_codes[code], auth_code_expiry_seconds)
           /\ ~validate_pkce(active_codes[code].provider_code_verifier,
                             active_codes[code].client_code_challenge,
                             active_codes[code].client_code_challenge_method)

\* C3: every call of the adapter carries the provider verifier that initiate
\* stored for the state of the code (none for a flow without PKCE), and for a
\* PKCE flow that is not the verifier the client sent with the exchange.
C3_AdapterGetsProviderVerifier ==
    /\ \A a \in adapter_calls :
           /\ a.state \in 1..Len(initiated)
           /\ a.code_verifier = initiated[a.state]
    /\ \A p \in pending :
           ClientPkce(p.auth_data) => p.call.code_verifier # p.code_verifier

\* the adapter was called for a PKCE flow and for a flow without PKCE
C3_Witness ==
    /\ \E a \in adapter_calls : a.code_verifier # NONE
    /\ \E a \in adapter_calls : a.code_verifier = NONE

\* C4 as stated: for a fresh record with a client challenge, a missing
\* verifier and a verifier that fails validation are both answered 400
\* invalid_grant, without an adapter call.
C4_MissingVerifierIsInvalidGrant ==
    \A code \in DOMAIN active_codes, code_verifier \in VerifierInputs :
        LET auth_data == active_codes[code]
            r == exchange_code_for_tokens(code, code_verifier)
        IN Truthy(auth_data.client_code_challenge)
               /\ Fresh(auth_data, auth_code_expiry_seconds)
               /\ (~Truthy(code_verifier)
                       \/ ~validate_pkce(code_verifier,
                                         auth_data.client_code_challenge,
                                         auth_data.client_code_challenge_method))
           => InvalidGrant(r.response) /\ NoAdapterCall(r)

\* C4, amended: for a fresh record with a client challenge the adapter is
\* called only after validate_pkce returned true for the client's verifier; a
\* missing verifier is answered 400 invalid_request and a verifier that fails
\* validation 400 invalid_grant, both without an adapter call.
C4_PkceBeforeAdapter ==
    \A code \in DOMAIN active_codes, code_verifier \in VerifierInputs :
        LET auth_data == active_codes[code]
            r == exchange_code_for_tokens(code, code_verifier)
            valid == validate_pkce(code_verifier,
                                   auth_data.client_code_challenge,
                                   auth_data.client_code_challenge_method)
        IN Truthy(auth_data.client_code_challenge)
               /\ Fresh(auth_data, auth_code_expiry_seconds)
           => /\ ~NoAdapterCall(r) => Truthy(code_verifier) /\ valid
              /\ ~Truthy(code_verifier) =>
                     /\ r.response.status = 400
                     /\ r.response.error = "invalid_request"
                     /\ NoAdapterCall(r)
              /\ Truthy(code_verifier) /\ ~valid =>
                     InvalidGrant(r.response) /\ NoAdapterCall(r)
              /\ Truthy(code_verifier) /\ valid => r.calls # {}

\* a fresh record with a client challenge is in the store, and an exchange of
\* another PKCE record was answered without an adapter call
C4_Witness ==
    /\ \E code \in DOMAIN active_codes :
           /\ Truthy(active_codes[code].client_code_challenge)
           /\ Fresh(active_codes[code], auth_code_expiry_seconds)
    /\ \E rec \in consumed :
           /\ initiated[rec[2]] # NONE
           /\ ~\E a \in adapter_calls : a.code = rec[1] /\ a.state = rec[2]

\* the callback is answered 400 and changes neither store
CallbackRejected(r, error) ==
    /\ r.response.status = 400
    /\ r.response.error = error
    /\ r.active_states = active_states
    /\ r.active_codes = active_codes
    /\ r.stored = stored

\* a callback has consumed the state token
StateConsumed(state) == \E rec \in stored : rec[2] = state

\* C5 as stated: once a callback has consumed state S, every later callback
\* with S is answered 400 invalid_state and stores no code record.
C5_LaterCallbackIsInvalidState ==
    \A state \in CallbackStates, code \in Codes, error \in ProviderErrors :
        StateConsumed(state) =>
            CallbackRejected(handle_callback(code, state, error), "invalid_state")

\* C5, amended: a state token is consumed by at most one callback.  A callback
\* without a provider error that finds the fresh state takes it out of the
\* store and stores a code record with the PKCE data of the state record;
\* after that the state never returns to the store, and every later callback
\* with it is answered 400 and stores nothing, with error invalid_state when it
\* carries no provider error and with the provider's error code when it does.
C5_StateConsumedOnce ==
    /\ \A x \in stored, y \in stored : x[2] = y[2] => x = y
    /\ \A state \in DOMAIN active_states, code \in Codes :
           LET state_info == active_states[state]
               r == handle_callback(code, state, NONE)
           IN Fresh(state_info, state_expiry_seconds) =>
               /\ r.response.status \in {200, 302}
               /\ state \notin DOMAIN r.active_states
               /\ code \in DOMAIN r.active_codes
               /\ r.active_codes[code].state = state
               /\ r.active_codes[code].client_code_challenge
                      = state_info.client_code_challenge
               /\ r.active_codes[code].client_code_challenge_method
                      = state_info.client_code_challenge_method
               /\ r.active_codes[code].provider_code_verifier
                      = state_info.provider_code_verifier
               /\ r.active_codes[code].provider_code_verifier = initiated[state]
    /\ \A state \in CallbackStates, code \in Codes, error \in ProviderErrors :
           StateConsumed(state) =>
               /\ state \notin DOMAIN active_states
               /\ CallbackRejected(handle_callback(code, state, error),
                      IF Truthy(error) THEN error ELSE "invalid_state")

\* one state has been consumed by a callback and another is fresh in the store
C5_Witness ==
    /\ \E state \in 1..Len(initiated) : StateConsumed(state)
    /\ \E state \in DOMAIN active_states :
           Fresh(active_states[state], state_expiry_seconds)

\* C6: a callback whose state record is older than state_expiry_seconds is
\* answered 400 and stores no code record, although the record is still in
\* the state store.
C6_ExpiredStateRejected ==
    \A state \in DOMAIN active_states, code \in Codes, error \in ProviderErrors :
        now - active_states[state].created_at > state_expiry_seconds =>
            LET r == handle_callback(code, state, error)
            IN /\ r.response.status = 400
               /\ r.active_codes = active_codes
               /\ r.stored = stored

\* a state record older than its time to live is in the state store
C6_Witness ==
    \E state \in DOMAIN active_states :
        now - active_states[state].created_at = state_expiry_seconds + 1

\* C7 as stated: once an exchange has looked up code c, every later exchange
\* of c is answered 400 invalid_grant without an adapter call.
C7_LookedUpCodeStaysRejected ==
    \A rec \in consumed, code_verifier \in VerifierInputs :
        LET r == exchange_code_for_tokens(rec[1], code_verifier)
        IN InvalidGrant(r.response) /\ NoAdapterCall(r)

\* C7, amended: once an exchange has looked up the record of code c, whatever
\* its outcome, that record is not in the store again; every later exchange of
\* c is answered 400 invalid_grant without an adapter call until a later
\* callback stores c again (under another state).
C7_LookupConsumesCode ==
    \A rec \in consumed :
        /\ CodeKnown(rec[1]) =>
               /\ active_codes[rec[1]].state # rec[2]
               /\ <<rec[1], active_codes[rec[1]].state>> \in stored
        /\ ~CodeKnown(rec[1]) =>
               \A code_verifier \in VerifierInputs :
                   LET r == exchange_code_for_tokens(rec[1], code_verifier)
                   IN InvalidGrant(r.response) /\ NoAdapterCall(r)

\* an exchange that called no adapter has looked up a record, and its code is
\* not in the store
C7_Witness ==
    \E rec \in consumed :
        /\ ~CodeKnown(rec[1])
        /\ ~\E a \in adapter_calls : a.code = rec[1] /\ a.state = rec[2]

\* a step takes the record of code c out of the store
Removed(c) == c \in DOMAIN active_codes /\ c \notin DOMAIN active_codes'

\* a step takes the record of code c out of the store, or replaces it
RemovedOrReplaced(c) ==
    /\ c \in DOMAIN active_codes
    /\ c \in DOMAIN active_codes' => active_codes'[c] # active_codes[c]

\* the step is an exchange of c that reached the adapter
ByExchangeReachingAdapter(c) ==
    \E a \in adapter_calls' \ adapter_calls :
        a.code = c /\ a.state = active_codes[c].state

\* the step is an exchange that looked up the record of c
ByLookup(c) == <<c, active_codes[c].state>> \in consumed' \ consumed

\* the step is a sweep, and the record of c is older than its time to live
BySweep(c) ==
    /\ now - active_codes[c].created_at > auth_code_expiry_seconds
    /\ c \notin DOMAIN active_codes'
    /\ UNCHANGED <<consumed, stored, adapter_calls, pending>>

\* the step is a callback that stored c again
ByCallback(c) ==
    /\ c \in DOMAIN active_codes'
    /\ <<c, active_codes'[c].state>> \in stored' \ stored

\* C8 as stated: a code record leaves the store only by a successful exchange
\* (which at least reaches the adapter) or by an expiry sweep.
C8_RemovedOnlyBySuccessOrSweep ==
    [][\A c \in Codes :
          Removed(c) => ByExchangeReachingAdapter(c) \/ BySweep(c)]_vars

\* C8, amended: a code record stays in the store until an exchange looks it up
\* (whether or not that exchange succeeds), an expiry sweep removes it once it
\* is older than auth_code_expiry_seconds, or a later callback with the same
\* code replaces it; no other step removes or changes it.
C8_RemovedOnlyByLookupSweepOrCallback ==
    [][\A c \in Codes :
          RemovedOrReplaced(c) =>
              ByLookup(c) \/ BySweep(c) \/ ByCallback(c)]_vars

\* a stored record has left the store without an exchange looking it up
C8_Witness ==
    \E rec \in stored \ consumed :
        ~(CodeKnown(rec[1]) /\ active_codes[rec[1]].state = rec[2])

\* C9: an exchange of a code that is not in the store, or whose record is
\* older than auth_code_expiry_seconds, is answered 400 invalid_grant and
\* calls no adapter.
C9_AbsentOrExpiredCode ==
    \A code \in Codes, code_verifier \in VerifierInputs :
        (code \notin DOMAIN active_codes
             \/ now - active_codes[code].created_at > auth_code_expiry_seconds)
        => LET r == exchange_code_for_tokens(code, code_verifier)
           IN InvalidGrant(r.response) /\ NoAdapterCall(r)

\* one code is in the store with an expired record and the other is absent
C9_Witness ==
    /\ \E code \in DOMAIN active_codes :
           now - active_codes[code].created_at = auth_code_expiry_seconds + 1
    /\ \E code \in Codes : code \notin DOMAIN active_codes

\* C10: every adapter call is for a record that an exchange looked up, every
\* such record was stored by a callback, and every stored record consumed a
\* state that initiate had created; a callback with a state that initiate has
\* not created and an exchange of a code that no callback has stored are
\* rejected.
C10_CausalOrder ==
    /\ \A a \in adapter_calls : <<a.code, a.state>> \in consumed
    /\ consumed \subseteq stored
    /\ \A rec \in stored : rec[2] \in 1..Len(initiated)
    /\ \A code \in DOMAIN active_codes :
           <<code, active_codes[code].state>> \in stored
    /\ DOMAIN active_states \subseteq 1..Len(initiated)
    /\ \A state \in CallbackStates \ (1..Len(initiated)), code \in Codes :
           CallbackRejected(handle_callback(code, state, NONE), "invalid_state")
    /\ \A code \in Codes, code_verifier \in VerifierInputs :
           (~\E rec \in stored : rec[1] = code) =>
               LET r == exchange_code_for_tokens(code, code_verifier)
               IN InvalidGrant(r.response) /\ NoAdapterCall(r)

\* the adapter has been called while initiate has not yet created every state
\* and no callback has yet stored every code
C10_Witness ==
    /\ adapter_calls # {}
    /\ Len(initiated) < MaxInitiate
    /\ \E code \in Codes : ~\E rec \in stored : rec[1] = code

\* the exchange request is suspended at the adapter call for code
ReachesAdapter(r, code) ==
    /\ r.response = Suspended
    /\ \E call \in r.calls : call.code = code
    /\ \E p \in r.pending : p.call \in r.calls

\* C11: the flow initiate (with a client challenge), callback, exchange (with
\* the matching verifier) succeeds step by step while the records are within
\* their time to live: the callback on the fresh state record is accepted and
\* stores a code record with the client's challenge; the exchange on that fresh
\* code record with a verifier whose challenge is the stored one reaches the
\* adapter; and when the adapter succeeds the suspended exchange answers 200
\* with exactly the token payload the adapter returned.
C11_EndToEndSuccess ==
    /\ \A state \in DOMAIN active_states, code \in Codes :
           LET state_info == active_states[state]
               r == handle_callback(code, state, NONE)
           IN ClientPkce(state_info) /\ Fresh(state_info, state_expiry_seconds)
              => /\ r.response.status \in {200, 302}
                 /\ code \in DOMAIN r.active_codes
                 /\ r.active_codes[code].created_at = now
                 /\ r.active_codes[code].client_code_challenge
                        = state_info.client_code_challenge
                 /\ r.active_codes[code].client_code_challenge_method
                        = state_info.client_code_challenge_method
    /\ \A code \in DOMAIN active_codes, code_verifier \in VerifierInputs :
           LET auth_data == active_codes[code]
           IN ClientPkce(auth_data) /\ Fresh(auth_data, auth_code_expiry_seconds)
                  /\ Truthy(code_verifier)
                  /\ code_challenge_of(code_verifier,
                         auth_data.client_code_challenge_method)
                         = auth_data.client_code_challenge
              => ReachesAdapter(exchange_code_for_tokens(code, code_verifier),
                                code)
    /\ \A p \in pending, outcome \in AdapterOutcomes :
           outcome.success /\ outcome.token \in TokenPayloads =>
               exchange_code_for_tokens_resume(p, outcome).response
                   = Response(200, NONE,
                         [kind |-> "token", token |-> outcome.token])

\* the adapter call of a PKCE flow has returned, and the holder has the tokens
\* of a successful exchange
C11_Witness ==
    /\ access_token \in { t.access_token : t \in TokenPayloads }
    /\ \E a \in adapter_calls :
           /\ a.code_verifier # NONE
           /\ \A p \in pending : p.call # a

\* C12: an initiate with a client challenge and a supported method is answered
\* with a redirect and stores a state record that holds the client's challenge
\* and method together with a provider verifier generated for this flow (one no
\* earlier flow was given) and its challenge under the same method; the
\* challenge handed to get_authorization_url is that provider challenge, and it
\* is not the client's challenge.  The records already stored keep the same
\* shape.
C12_ProviderPairInStateRecord ==
    /\ \A cc \in ClientChallenges, cm \in {"S256", "plain"},
          user_id \in UserIds, redirect_uri \in RedirectUris :
           Truthy(cc) =>
               LET r == initiate_authorization(cc, cm, user_id, redirect_uri)
                   state == Len(r.initiated)
                   rec == r.active_states[state]
               IN /\ r.response.status = 302
                  /\ state = Len(initiated) + 1
                  /\ state \notin DOMAIN active_states
                  /\ rec.client_code_challenge = cc
                  /\ rec.client_code_challenge_method = cm
                  /\ Truthy(rec.provider_code_verifier)
                  /\ \A n \in 1..Len(initiated) :
                         initiated[n] # rec.provider_code_verifier
                  /\ rec.provider_code_verifier \notin ClientVerifiers
                  /\ rec.provider_code_challenge_method = cm
                  /\ rec.provider_code_challenge
                         = code_challenge_of(rec.provider_code_verifier, cm)
                  /\ r.response.body.code_challenge = rec.provider_code_challenge
                  /\ r.response.body.code_challenge_method = cm
                  /\ r.response.body.code_challenge # cc
    /\ \A state \in DOMAIN active_states :
           LET rec == active_states[state]
           IN ClientPkce(rec) =>
                  /\ rec.provider_code_verifier = initiated[state]
                  /\ rec.provider_code_challenge_method
                         = rec.client_code_challenge_method
                  /\ rec.provider_code_challenge
                         = code_challenge_of(rec.provider_code_verifier,
                               rec.client_code_challenge_method)
                  /\ rec.provider_code_challenge # rec.client_code_challenge

\* a state record of an S256 flow is in the store and another initiate can
\* still be made
C12_Witness ==
    /\ Len(initiated) < MaxInitiate
    /\ \E state \in DOMAIN active_states :
           /\ active_states[state].client_code_challenge_method = "S256"
           /\ Truthy(active_states[state].provider_code_verifier)

\* the PKCE parameters initiate does not accept: exactly one of the two, or
\* both with a method other than S256 and plain
BadPkceParams(cc, cm) ==
    \/ Truthy(cc) /\ ~Truthy(cm)
    \/ ~Truthy(cc) /\ Truthy(cm)
    \/ Truthy(cc) /\ Truthy(cm) /\ cm \notin {"S256", "plain"}

\* C13 as stated: an initiate with exactly one of code_challenge and
\* code_challenge_method, or with a method other than S256 and plain, is
\* answered with status 400 and creates no state record.
C13_BadPkceParamsRejectedWith400 ==
    \A cc \in ClientChallenges, cm \in Methods, user_id \in UserIds,
       redirect_uri \in RedirectUris :
        BadPkceParams(cc, cm) =>
            LET r == initiate_authorization(cc, cm, user_id, redirect_uri)
            IN /\ r.response.status = 400
               /\ r.active_states = active_states
               /\ r.initiated = initiated

\* C14 as stated: a callback request that carries a provider-reported error E
\* is answered 400 with error code E and changes neither store.
C14_ProviderErrorAnsweredWithItsCode ==
    \A code \in Codes \cup {NONE}, state \in CallbackStates \cup {NoState},
       error \in ProviderErrors :
        Truthy(error) => CallbackRejected(callback(code, state, error), error)

\* C15: when the adapter call of an exchange fails, the exchange is answered
\* 400 invalid_grant, and the response is the same whether fetch_token raised
\* OAuth2Error (the provider rejected the request) or another exception (a
\* network or HTTP failure), and the same for every suspended request.
C15_AdapterFailureFoldedIntoInvalidGrant ==
    \A p \in pending, fetch \in FetchOutcomes :
        fetch.kind # "token" =>
            LET outcome == provider_exchange_code_for_tokens(fetch)
                r == exchange_code_for_tokens_resume(p, outcome)
            IN /\ ~outcome.success
               /\ InvalidGrant(r.response)
               /\ \A q \in pending, other \in FetchOutcomes :
                      other.kind # "token" =>
                          exchange_code_for_tokens_resume(q,
                              provider_exchange_code_for_tokens(other)).response
                              = r.response

\* one adapter call has returned without tokens while another exchange is
\* suspended at the adapter
C15_Witness ==
    /\ pending # {}
    /\ access_token = NONE
    /\ \E a \in adapter_calls : \A p \in pending : p.call # a

\* C16 as stated: when the adapter reports failure for a POST /oauth/refresh
\* request, the error code of the response is invalid_grant.
C16_RefreshFailureIsInvalidGrant ==
    \A refresh_token_value \in RefreshTokens, fetch \in RefreshFetchOutcomes :
        Truthy(refresh_token_value) /\ fetch.kind # "token" =>
            InvalidGrant(refresh_token_route(refresh_token_value, fetch).response)

\* the response is 500 server_error
ServerError(response) ==
    response.status = 500 /\ response.error = "server_error"

\* C17 as stated: an unexpected exception raised while initiate, callback or
\* exchange handles a request gives a 500 response with error server_error
\* and a description that is the same whatever the exception says.
C17_UnexpectedExceptionIsGenericServerError ==
    /\ \A e \in ExceptionMessages, other \in ExceptionMessages :
           /\ ServerError(initiate_authorization_except(e))
           /\ initiate_authorization_except(e)
                  = initiate_authorization_except(other)
           /\ ServerError(handle_callback_except(e))
           /\ handle_callback_except(e) = handle_callback_except(other)
           /\ ServerError(exchange_code_for_tokens_except(e))
           /\ exchange_code_for_tokens_except(e)
                  = exchange_code_for_tokens_except(other)
    /\ \A code \in NonStringCodes, other \in NonStringCodes,
          code_verifier \in VerifierInputs :
           /\ ServerError(token_exchange(code, code_verifier).response)
           /\ token_exchange(code, code_verifier).response
                  = token_exchange(other, code_verifier).response

\* the step is a sweep of both stores
IsSweep ==
    /\ active_states'
           = cleanup_expired_entries(active_states, state_expiry_seconds)
    /\ active_codes'
           = cleanup_expired_entries(active_codes, auth_code_expiry_seconds)
    /\ UNCHANGED <<now, holder, pending, adapter_calls, initiated, stored,
                   consumed>>

\* the callback is accepted: it stores a code record
CallbackAccepted(r) == r.response.status \in {200, 302}

\* the records of a store that are within their time to live
Live(storage, expiry_seconds) ==
    [k \in {j \in DOMAIN storage : Fresh(storage[j], expiry_seconds)}
        |-> storage[k]]

\* C18: a sweep never changes whether a request is accepted.  Across every
\* sweep step, each callback and each exchange request is accepted after the
\* sweep exactly when it was accepted before it (an accepted exchange makes the
\* same adapter call), and the stores the request leaves hold the same records
\* within their time to live; so the outcomes of a sequence of requests are the
\* same with and without sweeps between them.
C18_SweepPreservesOutcomes ==
    [][IsSweep =>
         /\ \A code \in Codes, state \in CallbackStates, error \in ProviderErrors :
                /\ CallbackAccepted(handle_callback(code, state, error))
                       = CallbackAccepted(handle_callback(code, state, error))'
                /\ handle_callback(code, state, error).response.status
                       = (handle_callback(code, state, error).response.status)'
                /\ Live(handle_callback(code, state, error).active_states,
                        state_expiry_seconds)
                       = Live(handle_callback(code, state, error).active_states,
                              state_expiry_seconds)'
                /\ Live(handle_callback(code, state, error).active_codes,
                        auth_code_expiry_seconds)
                       = Live(handle_callback(code, state, error).active_codes,
                              auth_code_expiry_seconds)'
         /\ \A code \in Codes, code_verifier \in VerifierInputs :
                /\ exchange_code_for_tokens(code, code_verifier).response.status
                       = (exchange_code_for_tokens(code,
                              code_verifier).response.status)'
                /\ exchange_code_for_tokens(code, code_verifier).calls
                       = exchange_code_for_tokens(code, code_verifier).calls'
                /\ exchange_code_for_tokens(code, code_verifier).pending
                       = exchange_code_for_tokens(code, code_verifier).pending'
                /\ Live(exchange_code_for_tokens(code,
                            code_verifier).active_codes,
                        auth_code_expiry_seconds)
                       = Live(exchange_code_for_tokens(code,
                                  code_verifier).active_codes,
                              auth_code_expiry_seconds)'
    ]_vars

\* a sweep has removed an expired code record that no exchange had looked up,
\* and a record within its time to live is in the state store
C18_Witness ==
    /\ \E rec \in stored \ consumed :
           /\ ~CodeKnown(rec[1])
           /\ \A other \in stored : other[1] = rec[1] => other = rec
    /\ \E state \in DOMAIN active_states :
           Fresh(active_states[state], state_expiry_seconds)

\* C19 as stated: every state record and every code record is eventually
\* removed from its store.
C19_EveryRecordEventuallyRemoved ==
    /\ \A state \in 1..MaxInitiate :
           (state \in DOMAIN active_states) ~> (state \notin DOMAIN active_states)
    /\ \A code \in Codes :
           (code \in DOMAIN active_codes) ~> (code \notin DOMAIN active_codes)

\* C20: require_pkce makes no difference to initiate.  With the setting on or
\* off every request is answered alike, and a request without code_challenge
\* and code_challenge_method is accepted: it is answered with the redirect to
\* the provider, which carries no code_challenge, and its state record holds
\* no client challenge and no provider pair.
C20_RequirePkceIsNotEnforced ==
    \A required \in BOOLEAN, user_id \in UserIds, redirect_uri \in RedirectUris :
        /\ \A cc \in ClientChallenges, cm \in Methods :
               authorize(required, cc, cm, user_id, redirect_uri)
                   = authorize(~required, cc, cm, user_id, redirect_uri)
        /\ LET r == authorize(required, NONE, NONE, user_id, redirect_uri)
               state == Len(initiated) + 1
           IN /\ r.response.status = 302
              /\ r.response.body.code_challenge = NONE
              /\ r.response.body.code_challenge_method = NONE
              /\ state \in DOMAIN r.active_states
              /\ state \notin DOMAIN active_states
              /\ r.active_states[state].client_code_challenge = NONE
              /\ r.active_states[state].client_code_challenge_method = NONE
              /\ r.active_states[state].provider_code_verifier = NONE
              /\ r.active_states[state].provider_code_challenge = NONE
              /\ r.active_states[state].provider_code_challenge_method = NONE

\* with require_pkce set, the state record of a flow without PKCE is in the
\* store
C20_Witness ==
    /\ require_pkce
    /\ \E state \in DOMAIN active_states :
           /\ ~ClientPkce(active_states[state])
           /\ active_states[state].provider_code_verifier = NONE


\* C21: is_token_expired is true exactly when the holder has no access token,
\* or has no expires_at, or now + 300 >= expires_at: a token that expires
\* within the 300 seconds to come counts as expired already.
C21_ExpiredExactlyWithinMargin ==
    is_token_expired(self)
        <=> \/ ~Truthy(access_token)
            \/ expires_at = NoExpiry
            \/ now + 300 >= expires_at

\* a token that expires in exactly 300 seconds is held, and a tool call that
\* found it expired awaits the refresh
C21_Witness ==
    /\ Truthy(access_token)
    /\ expires_at = now + 300
    /\ \E c \in Callers : tool[c].pc = "refreshing"

\* a _make_request of caller c begins in this step, and with it
\* ensure_valid_token, on the token fields of the new state: the step assigns
\* no field after ensure_valid_token has read them
Begins(c) ==
    /\ tool[c].pc \in {"idle", "returned"}
    /\ tool'[c].pc \notin {"idle", "returned", "HTTPException"}

\* in the step the token fields are as ensure_valid_token found them: only
\* _get_authenticated_client, which runs before it, assigned access_token
NotModifiedByEnsure(c) ==
    /\ refresh_token' = refresh_token
    /\ expires_at' = expires_at
    /\ access_token' = access_token \/ tool[c].pc = "idle"

\* C22: with an access token and no refresh token ensure_valid_token returns
\* true at once, whether or not the token is expired: it calls no refresh and
\* assigns no token field.
C22_PassThroughWithoutRefreshToken ==
    [][ \A c \in Callers :
            Begins(c) /\ Truthy(access_token') /\ ~Truthy(refresh_token')
                => /\ tool'[c].ensured = "true"
                   /\ tool'[c].refreshes = 0
                   /\ NotModifiedByEnsure(c) ]_vars

\* a tool call whose ensure_valid_token returned true without a refresh goes
\* on, and the token it goes on with is expired and has no refresh token
C22_Witness ==
    \E c \in Callers :
        /\ tool[c].pc \in {"limited", "requesting"}
        /\ tool[c].ensured = "true"
        /\ tool[c].refreshes = 0
        /\ Truthy(access_token)
        /\ ~Truthy(refresh_token)
        /\ is_token_expired(self)

\* C23: with a refresh token held, ensure_valid_token returns true without a
\* refresh when the token is not expired; when it is expired it calls
\* refresh_access_token once, and returns true exactly when the refresh
\* succeeded.  With neither an access token nor a refresh token it returns
\* false.
C23_RefreshOnceWhenExpired ==
    [][ \A c \in Callers :
            /\ Begins(c) /\ Truthy(refresh_token') /\ ~is_token_expired(self)'
                   => /\ tool'[c].ensured = "true"
                      /\ tool'[c].refreshes = 0
                      /\ NotModifiedByEnsure(c)
            /\ Begins(c) /\ Truthy(refresh_token') /\ is_token_expired(self)'
                   => /\ tool'[c].pc = "refreshing"
                      /\ tool'[c].refreshes = 1
            /\ tool[c].pc = "refreshing" /\ tool'[c].pc # "refreshing"
                   => /\ tool'[c].refreshes = 1
                      /\ tool'[c].refreshed \in {"ok", "failed"}
                      /\ tool'[c].ensured
                             = IF tool'[c].refreshed = "ok" THEN "true"
                               ELSE "false"
            /\ Begins(c) /\ ~Truthy(access_token') /\ ~Truthy(refresh_token')
                   => /\ tool'[c].ensured = "false"
                      /\ tool'[c].refreshes = 0
                      /\ NotModifiedByEnsure(c) ]_vars

\* one tool call's refresh has succeeded and its ensure_valid_token returned
\* true, another's has failed and its ensure_valid_token returned false
C23_Witness ==
    \E c1, c2 \in Callers :
        /\ tool[c1].refreshes = 1
        /\ tool[c1].refreshed = "ok"
        /\ tool[c1].ensured = "true"
        /\ tool[c2].refreshes = 1
        /\ tool[c2].refreshed = "failed"
        /\ tool[c2].ensured = "false"

\* C24 as stated: at most one refresh is in flight at a time; two tool calls
\* on an expired holder never both await refresh_access_token.
C24_AtMostOneRefreshInFlight ==
    Cardinality({ c \in Callers : tool[c].pc = "refreshing" }) <= 1

Cleared == Holder(NONE, NONE, NoExpiry)

\* C25: revoke_token(t) clears access_token, refresh_token and expires_at and
\* returns true, whatever t is; with the fields cleared is_token_expired is
\* true and ensure_valid_token returns false, for as long as no operation
\* assigns a token to the holder.
C25_RevokeClearsTheHolder ==
    [][ /\ \A token \in RevokeTokens :
               Truthy(token) /\ RevokeWith(token)
                   => /\ revoke_token(token).success
                      /\ revoke_token_route(token).response.status = 200
                      /\ self' = Cleared
        /\ self' = Cleared
               => /\ is_token_expired(self)'
                  /\ ensure_valid_token(self)'
                         = [kind |-> "return", value |-> FALSE] ]_vars

\* the fields are cleared under a tool call whose ensure_valid_token had
\* returned true: the token it found was revoked while it slept
C25_Witness ==
    /\ self = Cleared
    /\ \E c \in Callers :
           tool[c].pc = "limited" /\ tool[c].ensured = "true"

\* C26 as stated: a step that changes access_token, refresh_token or
\* expires_at is the return of an exchange's adapter call, a refresh (by the
\* route or by ensure_valid_token) or a revocation.
C26_HolderWrittenOnlyByExchangeRefreshRevoke ==
    [][ holder' # holder
            => ExchangeReturn \/ Refresh \/ EnsureReturn \/ Revoke ]_vars

\* C27: the client sends an HTTP request only in a _make_request whose
\* ensure_valid_token has returned true; when it returned false the call
\* raises AirtableAuthError and has sent nothing.
C27_NoRequestWithoutValidToken ==
    \A c \in Callers :
        /\ tool[c].sent => tool[c].ensured = "true"
        /\ tool[c].pc = "requesting" => tool[c].sent
        /\ tool[c].ensured = "false"
               => tool[c].pc = "AirtableAuthError" /\ ~tool[c].sent

\* one tool call has sent its request after a refresh, another was refused
\* because its refresh failed
C27_Witness ==
    \E c1, c2 \in Callers :
        /\ tool[c1].pc = "requesting"
        /\ tool[c1].refreshed = "ok"
        /\ tool[c2].pc = "AirtableAuthError"
        /\ tool[c2].ensured = "false"
        /\ ~tool[c2].sent

\* the generator returned a pair
Generated(by) ==
    /\ generated.kind = "call"
    /\ generated.by = by
    /\ generated.result.kind = "pair"

\* the character set a call draws from
SetOf(character_set) ==
    IF character_set = NONE THEN RFC7636Set ELSE character_set

\* C28: for method S256 or plain, a length from 43 to 128 and a character set
\* that is not empty, generate_pkce_pair returns a pair: the verifier has
\* exactly the given length, each of its characters is in the set, and
\* validate_pkce accepts the verifier for the challenge under the method.
C28_GeneratedPairIsValid ==
    ( /\ generated.kind = "call"
      /\ generated.by = "generate_pkce_pair"
      /\ generated.method \in {"S256", "plain"}
      /\ generated.length >= 43
      /\ generated.length <= 128
      /\ generated.character_set # "" )
        => /\ generated.result.kind = "pair"
           /\ Len(generated.result.code_verifier) = generated.length
           /\ Chars(generated.result.code_verifier)
                  \subseteq Chars(SetOf(generated.character_set))
           /\ validate_pkce(generated.result.code_verifier,
                  generated.result.code_challenge, generated.method)

\* a pair under S256 with the shortest length, over a set of two characters
\* which are both in the verifier
C28_Witness ==
    /\ Generated("generate_pkce_pair")
    /\ generated.method = "S256"
    /\ generated.length = 43
    /\ generated.character_set = "ab"
    /\ Chars(generated.result.code_verifier) = {"a", "b"}

\* the characters one character of a verifier is changed to
MutationChars == {"a", "b", "_", "~"}

\* the string s with its i-th character replaced by ch
Mutate(s, i, ch) == SubSeq(s, 1, i - 1) \o ch \o SubSeq(s, i + 1, Len(s))

\* C29: for a generated pair (v, c) under method M, S256 or plain,
\* validate_pkce(v', c, M) is false for every v' that differs from v in one
\* character; and of two generated pairs with different verifiers, the
\* verifier of neither is accepted for the challenge of the other.
C29_OnlyTheVerifierValidates ==
    generated.kind = "call" /\ generated.result.kind = "pair"
        => LET v == generated.result.code_verifier
               c == generated.result.code_challenge
               M == generated.method
           IN /\ \A i \in 1..Len(v), ch \in MutationChars :
                      ch # CharAt(v, i) => ~validate_pkce(Mutate(v, i, ch), c, M)
              /\ \A e \in generated.earlier :
                      e.code_verifier # v
                          => /\ ~validate_pkce(e.code_verifier, c, M)
                             /\ ~validate_pkce(v, e.code_challenge, e.method)

\* two pairs were generated, under S256, whose verifiers have the same length
\* and differ
C29_Witness ==
    /\ generated.kind = "call"
    /\ generated.result.kind = "pair"
    /\ generated.method = "S256"
    /\ \E e \in generated.earlier :
           /\ e.method = "S256"
           /\ e.code_verifier # generated.result.code_verifier
           /\ Len(e.code_verifier) = Len(generated.result.code_verifier)

\* C30: for requirements whose max_length (128 when absent) generate_pkce_pair
\* accepts, and method S256 or plain, generate_provider_compatible_pkce
\* returns a verifier of length max_length whose characters are all in
\* requirements.character_set (the RFC 7636 set when absent), with the
\* challenge of the given method.
C30_ProviderPairUsesMaxLengthAndSet ==
    ( /\ generated.kind = "call"
      /\ generated.by = "generate_provider_compatible_pkce"
      /\ generated.method \in {"S256", "plain"}
      /\ generated.provider_requirements.max_length \in {NoLength} \cup 43..128
      /\ generated.provider_requirements.character_set # "" )
        => LET max_length ==
                   IF generated.provider_requirements.max_length = NoLength
                   THEN 128
                   ELSE generated.provider_requirements.max_length
               v == generated.result.code_verifier
           IN /\ generated.result.kind = "pair"
              /\ Len(v) = max_length
              /\ Chars(v) \subseteq
                     Chars(SetOf(generated.provider_requirements.character_set))
              /\ generated.result.code_challenge
                     = IF generated.method = "S256" THEN Sha256B64(v) ELSE v

\* a pair for requirements with min_length 50 and max_length 80
C30_Witness ==
    /\ Generated("generate_provider_compatible_pkce")
    /\ generated.provider_requirements.min_length = 50
    /\ generated.provider_requirements.max_length = 80
    /\ Len(generated.result.code_verifier) = 80


\* the PKCE binding of a code record: what an exchange of the code checks the
\* client against, and what it sends to the provider
Binding(auth_data) ==
    <<auth_data.client_code_challenge, auth_data.client_code_challenge_method,
      auth_data.provider_code_verifier>>

\* C31: while a code record for c exists its PKCE binding is fixed: no step,
\* and so no later callback that carries the same c with another valid state,
\* replaces the record's client challenge, method or provider verifier.
C31_CodeBindingFixedOnceStored ==
    [][\A c \in DOMAIN active_codes \cap DOMAIN active_codes' :
           Binding(active_codes'[c]) = Binding(active_codes[c])]_vars

\* the step in which the client of caller c sends an HTTP request
Sends(c) == tool[c].pc # "requesting" /\ tool'[c].pc = "requesting"

\* C32: every downstream request issued for an inbound request that carried
\* the bearer token T is sent with Authorization: Bearer T: the header that
\* get_auth_headers builds when the request of caller c is sent carries the
\* token of the request that c serves.
C32_RequestCarriesItsOwnBearer ==
    [][ \A c \in Callers :
            Sends(c) => get_auth_headers(self)' = "Bearer " \o BearerOf(c) ]_vars

\* the requests GET /auth/authorize can get
InitiateRequests == ClientChallenges \X Methods \X UserIds \X RedirectUris

\* C33 as stated: an initiate request that ends in an error response leaves
\* the state store unchanged, also when get_authorization_url raises after the
\* state token was generated.
C33_FailedInitiateLeavesStoreUnchanged ==
    \A q \in InitiateRequests :
        LET r == initiate_authorization(q[1], q[2], q[3], q[4])
        IN /\ r.response.status # 302 => r.active_states = active_states
           /\ r.response.status = 302
                  => \A e \in AuthorizationUrlErrors :
                         LET x == initiate_authorization_raises(q[1], q[2],
                                      q[3], q[4], e)
                         IN /\ x.response.status = 500
                            /\ x.active_states = active_states

\* C33: an initiate request that is refused for its PKCE parameters leaves the
\* state store unchanged.  When get_authorization_url raises, the request is
\* answered with 500 and the state record stored before the call stays in the
\* store, under the token that was generated and with what the request
\* carried: every other record of the store is as it was.
C33_RecordStaysWhenAuthorizationUrlRaises ==
    \A q \in InitiateRequests :
        LET r == initiate_authorization(q[1], q[2], q[3], q[4])
            state == generate_secure_state
        IN /\ r.response.status # 302
                  => r.response.status = 500 /\ r.active_states = active_states
           /\ r.response.status = 302
                  => \A e \in AuthorizationUrlErrors :
                         LET x == initiate_authorization_raises(q[1], q[2],
                                      q[3], q[4], e)
                         IN /\ x.response.status = 500
                            /\ state \notin DOMAIN active_states
                            /\ DOMAIN x.active_states
                                   = DOMAIN active_states \cup {state}
                            /\ \A k \in DOMAIN active_states :
                                   x.active_states[k] = active_states[k]
                            /\ x.active_states[state].created_at = now
                            /\ x.active_states[state].client_code_challenge = q[1]
                            /\ x.active_states[state].client_code_challenge_method
                                   = q[2]
                            /\ x.active_states[state].user_id = q[3]

\* the store holds a record, and an initiate whose get_authorization_url
\* raises would leave one more
C33_Witness ==
    /\ DOMAIN active_states # {}
    /\ \E q \in InitiateRequests, e \in AuthorizationUrlErrors :
           /\ initiate_authorization(q[1], q[2], q[3], q[4]).response.status = 302
           /\ Cardinality(DOMAIN initiate_authorization_raises(q[1], q[2], q[3],
                                     q[4], e).active_states)
                  = Cardinality(DOMAIN active_states) + 1

\* the step in which the ensure_valid_token of caller c returns true after
\* the refresh it awaited
ReturnsTrueAfterRefresh(c) ==
    /\ tool[c].pc = "refreshing"
    /\ tool'[c].pc # "refreshing"
    /\ tool'[c].ensured = "true"

Fields(r) == Holder(r.access_token, r.refresh_token, r.expires_at)

\* an exchange suspended at the adapter call (the token fields the adapter
\* leaves do not depend on it)
AnyPending ==
    [ call |-> AdapterCall("c1", NONE, 1), code_verifier |-> NONE,
      auth_data |-> NoRecord ]

Carried(response) ==
    LET body == response.body
    IN {response.error} \cup
       ( IF body.kind = "authorization_url"
         THEN {body.code_challenge, body.code_challenge_method}
         ELSE IF body.kind = "redirect"
         THEN {body.url, body.code, body.code_challenge,
               body.code_challenge_method}
         ELSE IF body.kind = "authorization_successful"
         THEN {body.code}
         ELSE IF body.kind = "token"
         THEN {body.token.access_token, body.token.refresh_token}
         ELSE IF body.kind = "error"
         THEN {body.error_description}
         ELSE IF body.kind = "http_exception"
         THEN {body.detail}
         ELSE {} )

\* the provider verifiers that initiate has generated so far
Generated_verifiers == { initiated[n] : n \in DOMAIN initiated } \ {NONE}

\* the responses of the callback and of the exchange to every request, in the
\* state as it is
LaterResponses ==
    { callback(q[1], q[2], q[3]).response : q \in CallbackRequests }
        \cup { token_exchange(code, cv).response :
                   code \in Codes \cup {NONE} \cup NonStringCodes,
                   cv \in VerifierInputs }
        \cup { exchange_code_for_tokens_resume(p, outcome).response :
                   p \in pending, outcome \in AdapterOutcomes }

\* C36 as stated: no response towards the client contains a provider-facing
\* code_verifier, for both methods: not the initiate redirect, not the
\* callback's redirect or JSON, not the exchange response.
C36_ProviderVerifierNeverSent ==
    /\ \A r \in LaterResponses : Carried(r) \cap Generated_verifiers = {}
    /\ \A q \in InitiateRequests :
           LET r == initiate_authorization(q[1], q[2], q[3], q[4])
               new == r.initiated[Len(r.initiated)]
           IN r.response.status = 302
                  => Carried(r.response)
                         \cap ((Generated_verifiers \cup {new}) \ {NONE}) = {}

\* C36: the callback's redirect and JSON and the exchange response never
\* contain a provider-facing code_verifier.  The initiate redirect does not
\* contain the one of an earlier flow, and it contains its own exactly when
\* the method is plain: the code_challenge of the provider's authorization URL
\* is then the verifier itself.
C36_ProviderVerifierSentOnlyAsPlainChallenge ==
    /\ \A r \in LaterResponses : Carried(r) \cap Generated_verifiers = {}
    /\ \A q \in InitiateRequests :
           LET r == initiate_authorization(q[1], q[2], q[3], q[4])
               new == r.initiated[Len(r.initiated)]
           IN r.response.status = 302
                  => /\ Carried(r.response) \cap Generated_verifiers = {}
                     /\ new # NONE
                            => /\ new \in Carried(r.response) <=> q[2] = "plain"
                               /\ q[2] = "plain"
                                      => r.response.body.code_challenge = new

\* the exchange of a plain flow and of an S256 flow of the same client are
\* both suspended at the adapter call, which carries the provider verifier
C36_Witness ==
    \E p1, p2 \in pending :
        /\ p1.auth_data.client_code_challenge_method = "plain"
        /\ p2.auth_data.client_code_challenge_method = "S256"
        /\ p1.call.code_verifier \in Generated_verifiers
        /\ p2.call.code_verifier \in Generated_verifiers

\* C37 as stated: the credentials of every registration are unique: two
\* registration requests never receive the same client_id or the same
\* client_secret.
C37_RegisteredCredentialsUnique ==
    \A i, j \in DOMAIN registered :
        i # j => /\ registered[i].client_id # registered[j].client_id
                 /\ registered[i].client_secret # registered[j].client_secret


----------------------------------------------------------------------------
\* the outcomes after which the loop goes to another attempt
Retried == {"429", "RequestError", "TimeoutException"}

\* the HTTP attempts a _make_request has made so far
Attempts(r) == IF r.pc = "idle" THEN 0 ELSE r.attempt + 1

\* what the loop has done so far is what max_retries allows: no attempt beyond
\* max_retries + 1, every attempt but the last one answered by a 429 or an
\* httpx error, and the request ended as its last answer says
WithinRetries(r) ==
    LET n == Len(r.outcomes)
        last == r.outcomes[n]
    IN /\ Attempts(r) <= r.max_retries + 1
       /\ n = IF r.pc = "requesting" THEN r.attempt ELSE Attempts(r)
       /\ \A i \in 1..(n - 1) : r.outcomes[i] \in Retried
       /\ r.pc = "sleeping" => last \in Retried /\ n <= r.max_retries
       /\ r.pc = "returned" => last = "200"
       /\ r.pc = "AirtableAuthError" => last = "401"
       /\ r.pc = "AirtableNotFoundError" => last = "404"
       /\ r.pc = "AirtableValidationError" => last = "422"
       /\ r.pc = "AirtableRateLimitError" =>
              last = "429" /\ n = r.max_retries + 1
       /\ r.pc = "AirtableAPIError" =>
              \/ last \in {"500", "200 not JSON"}
              \/ last \in {"RequestError", "TimeoutException"}
                 /\ n = r.max_retries + 1
       /\ r.pc \in RequestEnded /\ n <= r.max_retries => last \notin Retried

----------------------------------------------------------------------------
\* a call of set_access_token or clear_access_token made in context k
CallIn(k) == SetAccessToken(k) \/ ClearAccessToken(k)

\* C39: a token set in one thread is what get_access_token returns in that
\* thread's context, and no call of set_access_token (or clear_access_token)
\* made in another thread changes what get_access_token returns there
C39_ThreadsKeepTheirTokens ==
    [][\A k \in Contexts :
         /\ \A token \in TokensOf(k[1]) :
                auth_context' = set_access_token(auth_context, k, token)
                    => get_access_token(auth_context', k) = token
         /\ (\E other \in Contexts : other[1] # k[1] /\ CallIn(other))
                => get_access_token(auth_context', k)
                       = get_access_token(auth_context, k)]_vars

\* every thread holds a token of its own, the second one set after the first
C39_Witness ==
    /\ \A th \in Threads :
           get_access_token(auth_context, <<th, 1>>) = "tok" \o ToString(th)
    /\ auth_context.access_token_context[<<1, 2>>] = ""
    /\ auth_context.access_token_context[<<2, 2>>] = NONE

----------------------------------------------------------------------------
\* C40: for every non-empty token, introspect_token returns a record whose
\* active flag is `not is_token_expired` of the adapter's own fields, the same
\* record whatever the token is; it returns None only for an empty token when
\* the adapter holds no access token
C40_IntrospectionAnswersFromHolder ==
    \A token \in IntrospectTokens :
        LET info == introspect_token(self, token)
        IN /\ Truthy(token) =>
                  /\ info # NoTokenInfo
                  /\ info.active = ~is_token_expired(self)
                  /\ \A other \in IntrospectTokens :
                         Truthy(other) => introspect_token(self, other) = info
           /\ info = NoTokenInfo => ~Truthy(token) /\ ~Truthy(access_token)

\* the adapter holds a refreshed token that has not expired, and a token it
\* never had is reported active
C40_Witness ==
    /\ access_token = "at2"
    /\ ~is_token_expired(self)
    /\ introspect_token(self, "zz").active
    /\ introspect_token(self, "zz").exp = expires_at
====
